---- MODULE Spec2Model ----
(***************************************************************************)
(* A model of HewlettPackard/structex: the annotation-driven transcoder    *)
(* (transcoder.transcode and its backtrace / fieldMap), the bit-level      *)
(* encoder and decoder, the sizer and the static typeSize.                 *)
(*                                                                         *)
(* A uint64 is a sequence of 8 bytes, least significant first; a scalar    *)
(* field holds Bits(kind)/8 bytes.  A struct value is the sequence of its  *)
(* field values, an array or slice value the sequence of its elements.     *)
(* A reflect.Value is a path (a sequence of indexes) into the root value.  *)
(***************************************************************************)
EXTENDS Integers, Sequences, FiniteSets, TLC

\* ------------------------------------------------------------ bytes, words

\* Count values at or above Huge are not told apart (no sequence is that long).
Huge == 16777216

RECURSIVE Pow2(_)
Pow2(n) == IF n = 0 THEN 1 ELSE 2 * Pow2(n - 1)

\* the n low bytes of the two's complement of i, least significant first
RECURSIVE FromInt(_, _)
FromInt(i, n) == IF n = 0 THEN <<>> ELSE <<i % 256>> \o FromInt(i \div 256, n - 1)

Word(i) == FromInt(i, 8)

ZeroBytes(n) == [k \in 1..n |-> 0]

IsZero(w) == \A k \in 1..Len(w) : w[k] = 0

\* a byte sequence as a number; Huge when it does not fit three bytes
ToNat(w) ==
    IF \E k \in 4..Len(w) : w[k] # 0 THEN Huge
    ELSE (IF Len(w) >= 1 THEN w[1] ELSE 0)
       + (IF Len(w) >= 2 THEN 256 * w[2] ELSE 0)
       + (IF Len(w) >= 3 THEN 65536 * w[3] ELSE 0)

\* bitwise or of two bytes
RECURSIVE BitOr(_, _)
BitOr(a, b) ==
    IF a = 0 THEN b ELSE IF b = 0 THEN a
    ELSE (IF a % 2 = 1 \/ b % 2 = 1 THEN 1 ELSE 0) + 2 * BitOr(a \div 2, b \div 2)

\* uint64 >> k, for 0 <= k <= 8
Shr(w, k) ==
    [i \in 1..8 |->
        IF k = 8 THEN (IF i < 8 THEN w[i + 1] ELSE 0)
        ELSE (w[i] \div Pow2(k)) + ((IF i < 8 THEN w[i + 1] ELSE 0) % Pow2(k)) * Pow2(8 - k)]

\* zero-extend (or cut) a byte sequence to n bytes
Extend(w, n) == [k \in 1..n |-> IF k <= Len(w) THEN w[k] ELSE 0]

Reverse(s) == [k \in 1..Len(s) |-> s[Len(s) + 1 - k]]

\* ------------------------------------------------------------ types

Bits(kind) ==
    CASE kind \in {"uint8", "int8"} -> 8
      [] kind \in {"uint16", "int16"} -> 16
      [] kind \in {"uint32", "int32"} -> 32
      [] kind \in {"uint64", "int64", "uint", "int"} -> 64

Signed(kind) == kind \in {"int8", "int16", "int32", "int64", "int"}

IsScalar(typ) == typ.kind \notin {"struct", "array", "slice"}

Scalar(kind) == [kind |-> kind]
Struct(fields) == [kind |-> "struct", fields |-> fields]
Array(elem, n) == [kind |-> "array", elem |-> elem, len |-> n]
Slice(elem) == [kind |-> "slice", elem |-> elem]

\* ------------------------------------------------------------ values

RECURSIVE Zero(_)
Zero(typ) ==
    CASE typ.kind = "struct" -> [i \in 1..Len(typ.fields) |-> Zero(typ.fields[i].typ)]
      [] typ.kind = "array" -> [i \in 1..typ.len |-> Zero(typ.elem)]
      [] typ.kind = "slice" -> <<>>
      [] OTHER -> ZeroBytes(Bits(typ.kind) \div 8)

RECURSIVE Get(_, _)
Get(v, path) == IF path = <<>> THEN v ELSE Get(v[Head(path)], Tail(path))

RECURSIVE Set(_, _, _)
Set(v, path, nv) ==
    IF path = <<>> THEN nv
    ELSE [v EXCEPT ![Head(path)] = Set(v[Head(path)], Tail(path), nv)]

RECURSIVE TypeAt(_, _)
TypeAt(typ, path) ==
    IF path = <<>> THEN typ
    ELSE IF typ.kind = "struct" THEN TypeAt(typ.fields[Head(path)].typ, Tail(path))
    ELSE TypeAt(typ.elem, Tail(path))

\* ------------------------------------------------------------ tags

\* An annotation text is a sequence of chunks of runes: each of : " ' = , and the
\* space is a chunk of its own, so is each digit, and a run of other runes (a word)
\* is one chunk.  parseString treats the runes of a word alike.
Digits == <<"0", "1", "2", "3", "4", "5", "6", "7", "8", "9">>

\* the decimal digits of n
RECURSIVE Itoa(_)
Itoa(n) == IF n < 10 THEN <<Digits[n + 1]>> ELSE Append(Itoa(n \div 10), Digits[(n % 10) + 1])

\* one key of an annotation with its value; a flag is written without a value in
\* the structex form
Bitfield(n) == [key |-> "bitfield", val |-> Itoa(n), flag |-> FALSE]
BitfieldReserved(n) == [key |-> "bitfield", val |-> Itoa(n) \o <<",", "reserved">>, flag |-> FALSE]
SizeOf(name) == [key |-> "sizeOf", val |-> <<name>>, flag |-> FALSE]
SizeOfRelative(name) == [key |-> "sizeOf", val |-> <<name, ",", "relative">>, flag |-> FALSE]
CountOf(name) == [key |-> "countOf", val |-> <<name>>, flag |-> FALSE]
Align(n) == [key |-> "align", val |-> Itoa(n), flag |-> FALSE]
AlignText(w) == [key |-> "align", val |-> <<w>>, flag |-> FALSE]
Truncate == [key |-> "truncate", val |-> <<>>, flag |-> TRUE]
Big == [key |-> "big", val |-> <<>>, flag |-> TRUE]
Little == [key |-> "little", val |-> <<>>, flag |-> TRUE]

\* the compact form, as TestBareTags writes it: key:"value" key:"value"
RECURSIVE BareText(_)
BareText(items) ==
    IF items = <<>> THEN <<>>
    ELSE (IF Len(items) = 1 THEN <<>> ELSE BareText(SubSeq(items, 1, Len(items) - 1)) \o <<" ">>)
         \o <<items[Len(items)].key, ":", "\"">> \o items[Len(items)].val \o <<"\"">>

\* the value of the structex key, as TestFullTags writes it: key='value',flag
RECURSIVE FullText(_)
FullText(items) ==
    IF items = <<>> THEN <<>>
    ELSE (IF Len(items) = 1 THEN <<>> ELSE FullText(SubSeq(items, 1, Len(items) - 1)) \o <<",">>)
         \o (IF items[Len(items)].flag THEN <<items[Len(items)].key>>
             ELSE <<items[Len(items)].key, "=", "'">> \o items[Len(items)].val \o <<"'">>)

\* a struct tag: structex tells whether Tag.Lookup("structex") finds the key, text is
\* its value when it does and the whole tag when it does not
BareTag(items) == [structex |-> FALSE, text |-> BareText(items)]
FullTag(items) == [structex |-> TRUE, text |-> FullText(items)]

\* a struct field annotated in the compact form, and one in the structex form
F(name, typ, items) == [name |-> name, typ |-> typ, tag |-> BareTag(items)]
FullF(name, typ, items) == [name |-> name, typ |-> typ, tag |-> FullTag(items)]

\* the tags struct; nil stands for a nil *tags, panic for a TaggingError panic
NilTags ==
    [nil |-> TRUE, panic |-> FALSE, endian |-> "little", nbits |-> 0, reserved |-> FALSE,
     format |-> "none", name |-> "", relative |-> FALSE, value |-> 0,
     alignment |-> 0, truncate |-> FALSE]

\* strings.ToLower on a key: the keys written with an upper-case letter
ToLower(key) ==
    CASE key = "sizeOf" -> "sizeof"
      [] key = "countOf" -> "countof"
      [] OTHER -> key

\* strings.Split(val, ",")[0]: the chunks before the first comma
RECURSIVE SplitFirst(_)
SplitFirst(val) ==
    IF val = <<>> \/ Head(val) = "," THEN <<>> ELSE <<Head(val)>> \o SplitFirst(Tail(val))

\* strings.Contains(val, word)
Contains(val, word) == \E k \in 1..Len(val) : val[k] = word

\* the string the chunks spell
RECURSIVE Join(_)
Join(val) == IF val = <<>> THEN "" ELSE Head(val) \o Join(Tail(val))

DigitValue(r) == IF \E d \in 1..10 : Digits[d] = r THEN (CHOOSE d \in 1..10 : Digits[d] = r) - 1 ELSE -1

\* strconv.ParseInt(s, 0, 64) of an unsigned decimal: err when s is empty or holds a
\* rune that is no digit
RECURSIVE ParseInt(_, _)
ParseInt(s, acc) ==
    IF s = <<>> THEN [err |-> FALSE, n |-> acc]
    ELSE IF DigitValue(Head(s)) < 0 THEN [err |-> TRUE, n |-> 0]
    ELSE ParseInt(Tail(s), 10 * acc + DigitValue(Head(s)))

Atoi(s) == IF s = <<>> THEN [err |-> TRUE, n |-> 0] ELSE ParseInt(s, 0)

\* strconv.ParseInt(s, 0, bitSize) accepts n: it fits a signed bitSize-bit integer
ParseIntFits(n, bitSize) == bitSize >= 32 \/ (n < Pow2(bitSize - 1) /\ -n <= Pow2(bitSize - 1))

\* the bitfield case of add: nbs is the text before the comma, r its ParseInt
addBitfield(sf, t, val, nbs, r) ==
    IF nbs = <<>> THEN [t EXCEPT !.reserved = Contains(val, "reserved")]
    ELSE IF ~IsScalar(sf.typ) \/ r.err \/ ~ParseIntFits(r.n, Bits(sf.typ.kind))
    THEN [t EXCEPT !.panic = TRUE]
    ELSE [t EXCEPT !.nbits = r.n, !.reserved = Contains(val, "reserved")]

\* the align case of add: r is ParseInt(val, 0, 64)
addAlign(t, r) == IF r.err THEN [t EXCEPT !.panic = TRUE] ELSE [t EXCEPT !.alignment = r.n]

addKey(sf, t, key, val) ==
    CASE key = "little" -> [t EXCEPT !.endian = "little"]
      [] key = "big" -> [t EXCEPT !.endian = "big"]
      [] key = "bitfield" -> addBitfield(sf, t, val, SplitFirst(val), Atoi(SplitFirst(val)))
      [] key = "sizeof" ->
            [t EXCEPT !.format = "sizeOf", !.name = Join(SplitFirst(val)),
                      !.relative = Contains(val, "relative")]
      [] key = "countof" -> [t EXCEPT !.format = "countOf", !.name = Join(val)]
      [] key = "truncate" -> [t EXCEPT !.truncate = TRUE]
      [] key = "align" -> addAlign(t, Atoi(val))
      [] OTHER -> t

add(sf, t, key, val) == addKey(sf, t, ToLower(key), val)

\* the separators of the two forms
parseOptions(structex) ==
    IF structex THEN [sep |-> ",", quote |-> "'", assign |-> "="]
    ELSE [sep |-> " ", quote |-> "\"", assign |-> ":"]

\* the label ADDTAG: st holds t, key, val, inKey and inVal
ADDTAG(sf, st) == [st EXCEPT !.t = add(sf, st.t, st.key, st.val), !.key = "", !.val = <<>>]

\* the switch on one rune r; last tells that r ends the text
parseRune(sf, st, r, opts, last) ==
    IF r = opts.assign THEN [st EXCEPT !.inKey = FALSE]
    ELSE IF r = opts.quote
    THEN IF st.inVal THEN ADDTAG(sf, [st EXCEPT !.inVal = FALSE])
         ELSE [st EXCEPT !.inVal = TRUE]
    ELSE IF r = opts.sep \/ r = ","
    THEN IF ~st.inVal THEN [st EXCEPT !.inKey = TRUE]
         ELSE [st EXCEPT !.val = Append(@, r)]
    ELSE IF st.inKey
    THEN IF last THEN ADDTAG(sf, [st EXCEPT !.key = @ \o r])
         ELSE [st EXCEPT !.key = @ \o r]
    ELSE IF st.inVal THEN [st EXCEPT !.val = Append(@, r)]
    ELSE st

\* the loop over the runes, from chunk idx on
RECURSIVE parseRunes(_, _, _, _, _)
parseRunes(sf, st, runes, opts, idx) ==
    IF idx > Len(runes) \/ st.t.panic THEN st.t
    ELSE parseRunes(sf, parseRune(sf, st, runes[idx], opts, idx = Len(runes)), runes, opts, idx + 1)

parseString(sf, t, tagString, opts) ==
    parseRunes(sf, [t |-> t, key |-> "", val |-> <<>>, inKey |-> TRUE, inVal |-> FALSE],
               tagString, opts, 1)

parseFieldTags(sf) ==
    parseString(sf,
        [NilTags EXCEPT !.nil = FALSE,
                        !.nbits = IF IsScalar(sf.typ) THEN Bits(sf.typ.kind) ELSE 0],
        sf.tag.text, parseOptions(sf.tag.structex))

\* ------------------------------------------------------------ transcoder state

\* A transcoder with its handler: the handler kind h, the root value and its type,
\* the pending loops of transcode / array / slice (frames), the backtrace stack,
\* the fieldMap, the bit cursor, the sink, the source and the sizer's totals.
\* reads counts the calls of the source's ReadByte, trace records what the handler did,
\* refs what fieldByName returned to each governing field and which reference each
\* array or slice field was handed.
NoRef == [valid |-> FALSE, value |-> <<>>, kind |-> "", tags |-> NilTags]

newTranscoder(h, val, typ) ==
    [h |-> h, val |-> val, typ |-> typ, frames |-> <<>>,
     backtrace |-> [len |-> 0, vals |-> <<>>],
     fieldMap |-> <<>>,
     currentByte |-> 0, byteOffset |-> 0, bitOffset |-> 0,
     sink |-> <<>>, cap |-> 0, rejected |-> 0,
     src |-> <<>>, pos |-> 0, eof |-> "EOF", reads |-> 0,
     nbits |-> 0, nbytes |-> 0,
     err |-> "", trace |-> <<>>, refs |-> <<>>]

Event(c, h, path, v, n) ==
    [h |-> h, path |-> path, v |-> v, n |-> n, off |-> c.byteOffset, reads |-> c.reads,
     at |-> IF c.h = "decoder" THEN c.pos ELSE Len(c.sink)]

Fail(c, e) == [c EXCEPT !.err = e]

push(s, v) == [len |-> Len(s.vals) + 1, vals |-> Append(s.vals, v)]

pop(s) == [s EXCEPT !.len = s.len - 1]

Frame(k, path, typ, n, trunc) ==
    [k |-> k, path |-> path, typ |-> typ, i |-> 1, n |-> n, trunc |-> trunc]

PushFrame(c, f) == [c EXCEPT !.frames = Append(c.frames, f)]

PopFrame(c) == [c EXCEPT !.frames = SubSeq(c.frames, 1, Len(c.frames) - 1)]

\* t.fieldMap[name]: nil when the map has no such key
Lookup(fieldMap, name) == IF name \in DOMAIN fieldMap THEN fieldMap[name] ELSE NoRef

Store(fieldMap, name, ref) ==
    [n \in (DOMAIN fieldMap) \cup {name} |-> IF n = name THEN ref ELSE fieldMap[n]]

\* index of the field called name in a struct type, 0 when it has none
FieldIndex(typ, name) ==
    IF \E i \in 1..Len(typ.fields) : typ.fields[i].name = name
    THEN CHOOSE i \in 1..Len(typ.fields) : typ.fields[i].name = name
    ELSE 0

\* searches vals[len-1] down to vals[0]; valid is FALSE when no entry has the field
RECURSIVE fieldByNameFrom(_, _, _)

\* the test of one backtrace entry sp, where the field has index k (0: not there)
fieldByNameAt(c, name, i, sp, k) ==
    IF k # 0 THEN [valid |-> TRUE, path |-> Append(sp, k)]
    ELSE fieldByNameFrom(c, name, i - 1)

fieldByNameFrom(c, name, i) ==
    IF i = 0 THEN [valid |-> FALSE, path |-> <<>>]
    ELSE fieldByNameAt(c, name, i, c.backtrace.vals[i],
                       FieldIndex(TypeAt(c.typ, c.backtrace.vals[i]), name))

fieldByName(c, name) == fieldByNameFrom(c, name, c.backtrace.len)

\* getValue: the field as a uint64, sign extended for the signed kinds
getValue(v, kind) ==
    [k \in 1..8 |->
        IF k <= Len(v) THEN v[k]
        ELSE IF Signed(kind) /\ v[Len(v)] >= 128 THEN 255 ELSE 0]

\* ------------------------------------------------------------ encoder

\* the sink's WriteByte, then byteOffset++; a sink that is full rejects the byte
writeByte(c, b) ==
    IF Len(c.sink) >= c.cap THEN [c EXCEPT !.rejected = c.rejected + 1]
    ELSE [c EXCEPT !.sink = Append(c.sink, b), !.byteOffset = c.byteOffset + 1]

\* the loop "for nbits != 0" of encoder.write
RECURSIVE writeLoop(_, _, _)
writeLoop(c, value, nbits) ==
    IF nbits = 0 THEN c
    ELSE LET c1 == [c EXCEPT !.currentByte = value[1]]
         IN IF nbits < 8 THEN [c1 EXCEPT !.bitOffset = c1.bitOffset + nbits]
            ELSE writeLoop(writeByte(c1, c1.currentByte), Shr(value, 8), nbits - 8)

\* encoder.write: the overflow test "value > math.MaxUint64" is never true, and the
\* error writeByte returns is dropped
write(c, value, nbits) ==
    IF c.bitOffset # 0
    THEN LET cur == BitOr(c.currentByte, (value[1] * Pow2(c.bitOffset)) % 256)
             remainingBits == 8 - c.bitOffset
         IN IF nbits < remainingBits
            THEN [c EXCEPT !.currentByte = cur, !.bitOffset = c.bitOffset + nbits]
            ELSE LET v2 == Shr(value, remainingBits)
                     c1 == writeByte([c EXCEPT !.currentByte = cur], cur)
                 IN writeLoop([c1 EXCEPT !.currentByte = v2[1], !.bitOffset = 0],
                              v2, nbits - remainingBits)
    ELSE writeLoop(c, value, nbits)

ReverseBytes(v, n) == Extend(Reverse(SubSeq(v, 1, n)), 8)

\* the switch on the field's kind under the big endian tag
bigEndian(v, kind) ==
    CASE kind \in {"uint16", "int16"} -> ReverseBytes(v, 2)
      [] kind \in {"uint32", "int32", "uint", "int"} -> ReverseBytes(v, 4)
      [] kind \in {"uint64", "int64"} -> ReverseBytes(v, 8)
      [] OTHER -> v

\* the call of write that ends encoder.field
encoder_fieldWrite(c, path, w, n) ==
    write([c EXCEPT !.trace = Append(@, Event(c, "field", path, w, n))], w, n)

encoder_fieldValue(c, path, typ, tags, v) ==
    encoder_fieldWrite(c, path,
                       IF tags.nil \/ tags.endian # "big" THEN v ELSE bigEndian(v, typ.kind),
                       IF tags.nil THEN Bits(typ.kind) ELSE tags.nbits)

encoder_field(c, path, typ, tags) ==
    IF ~IsScalar(typ) THEN Fail(c, "panic: Field type unsupported")
    ELSE encoder_fieldValue(c, path, typ, tags, getValue(Get(c.val, path), typ.kind))

\* size(value): a fresh sizer and transcoder walk the value to the end
RECURSIVE size(_, _)

\* the value a zero sizeOf / countOf field stands for (encoder.layout, sizer.layout);
\* offset is the handler's byte offset.  val.Index(0) panics on an empty sequence.
\* layoutSizeOf without the subtraction of the byte offset of a relative sizeOf
layoutSizeOf_absolute(ref, offset, len, sz) ==
    IF sz.err # "" THEN [err |-> sz.err, value |-> Word(0)]
    ELSE [err |-> "", value |-> Word(len * sz.n)]

\* the sizeOf case: sz is size(val.Index(0)) and len is val.Len()
layoutSizeOf(ref, offset, len, sz) ==
    IF sz.err # "" THEN [err |-> sz.err, value |-> Word(0)]
    ELSE [err |-> "",
          value |-> Word(len * sz.n - (IF ref.tags.relative THEN offset ELSE 0))]

layoutZero(c, found, ref, offset, arr) ==
    IF ref.tags.format = "sizeOf"
    THEN IF Len(arr) = 0 THEN [err |-> "panic: index out of range", value |-> Word(0)]
         ELSE layoutSizeOf(ref, offset, Len(arr), size(arr[1], TypeAt(c.typ, found).elem))
    ELSE IF ref.tags.format = "countOf" THEN [err |-> "", value |-> Word(Len(arr))]
    ELSE [err |-> "", value |-> Word(0)]

layoutRef(c, found, ref, offset, refval) ==
    IF ~IsZero(refval) THEN [err |-> "", value |-> getValue(refval, ref.kind)]
    ELSE layoutZero(c, found, ref, offset, Get(c.val, found))

layoutValue(c, found, ref, offset) == layoutRef(c, found, ref, offset, Get(c.val, ref.value))

\* encoder.layout; yields the transcoder and the reference as the handler left it
\* the call of write that ends encoder.layout, lv being the value it settled on
encoder_layoutWrite(c, ref, lv) ==
    IF lv.err # "" THEN [c |-> Fail(c, lv.err), ref |-> ref]
    ELSE [c |-> write([c EXCEPT !.trace = Append(@, Event(c, "layout", ref.value, lv.value, ref.tags.nbits))],
                      lv.value, ref.tags.nbits),
          ref |-> ref]

encoder_layout(c, found, ref) ==
    encoder_layoutWrite(c, ref, layoutValue(c, found, ref, c.byteOffset))

\* the element count encoder.array and sizer.array use: ref.value.Uint() panics on a
\* signed governing field
seqLen(c, path, ref) ==
    IF ref.valid /\ ~IsZero(Get(c.val, ref.value))
    THEN IF Signed(ref.kind) THEN -1 ELSE ToNat(Get(c.val, ref.value))
    ELSE Len(Get(c.val, path))

\* encoder.array, encoder.slice: the loop over l elements is the frame pushed here
encoder_array(c, path, typ, tags, ref) ==
    LET l == seqLen(c, path, ref)
    IN IF l < 0 THEN Fail(c, "panic: reflect: call of Value.Uint on int Value")
       ELSE PushFrame([c EXCEPT !.trace = Append(@, Event(c, "array", path, Word(l), 0))],
                      Frame("seq", path, typ.elem, l, FALSE))

\* ------------------------------------------------------------ sizer

addBits(c, nbits) ==
    [c EXCEPT !.nbytes = c.nbytes + (c.nbits + nbits) \div 8,
              !.nbits = (c.nbits + nbits) % 8]

sizer_field(c, path, typ, tags) ==
    IF tags.nil
    THEN IF ~IsScalar(typ) THEN Fail(c, "panic: reflect: Bits of non-arithmetic Type")
         ELSE addBits(c, Bits(typ.kind))
    ELSE addBits(c, tags.nbits)

sizer_layoutAdd(c, ref, lv) ==
    IF lv.err # "" THEN [c |-> Fail(c, lv.err), ref |-> ref]
    ELSE [c |-> addBits(c, ref.tags.nbits),
          ref |-> [ref EXCEPT !.tags.value = ToNat(lv.value)]]

sizer_layout(c, found, ref) == sizer_layoutAdd(c, ref, layoutValue(c, found, ref, c.nbytes))

\* sz is size(val.Index(0)), len the element count
sizer_arrayAdd(c, sz, len) ==
    IF sz.err # "" THEN Fail(c, sz.err)
    ELSE IF len < 0 THEN Fail(c, "panic: reflect: call of Value.Uint on int Value")
    ELSE addBits(c, sz.n * len * 8)

sizer_arrayOf(c, path, typ, ref, arr) ==
    IF Len(arr) = 0 THEN Fail(c, "panic: index out of range")
    ELSE sizer_arrayAdd(c, size(arr[1], typ.elem), seqLen(c, path, ref))

sizer_array(c, path, typ, tags, ref) == sizer_arrayOf(c, path, typ, ref, Get(c.val, path))

\* ------------------------------------------------------------ static size

RECURSIVE typeSize(_)
RECURSIVE structTypeSizeFrom(_, _, _, _)

\* the field loop of structTypeSize, from field i with the running totals
\* the running totals after b more bits
structTypeSizeAdd(typ, i, bytes, b) == structTypeSizeFrom(typ, i + 1, bytes + b \div 8, b % 8)

\* an array field, sz being typeSize of its type
structTypeSizeArray(typ, i, bytes, bits, sz) ==
    IF sz.err # "" THEN [err |-> sz.err, n |-> 0]
    ELSE structTypeSizeAdd(typ, i, bytes, bits + sz.n * 8 * typ.fields[i].typ.len)

\* any other field, with its parsed tags
structTypeSizeTags(typ, i, bytes, bits, tags) ==
    IF tags.panic THEN [err |-> "panic: TaggingError", n |-> 0]
    ELSE structTypeSizeAdd(typ, i, bytes, bits + tags.nbits)

structTypeSizeFrom(typ, i, bytes, bits) ==
    IF i > Len(typ.fields)
    THEN [err |-> IF bits # 0 THEN "Cannot duduct slice length" ELSE "", n |-> bytes]
    ELSE CASE typ.fields[i].typ.kind = "array" ->
                structTypeSizeArray(typ, i, bytes, bits, typeSize(typ.fields[i].typ))
           [] typ.fields[i].typ.kind = "slice" ->
                [err |-> "Cannot duduct slice length", n |-> 0]
           [] OTHER ->
                structTypeSizeTags(typ, i, bytes, bits, parseFieldTags(typ.fields[i]))

structTypeSize(typ) == structTypeSizeFrom(typ, 1, 0, 0)

typeSize(typ) ==
    CASE typ.kind = "struct" -> structTypeSize(typ)
      [] typ.kind = "array" -> typeSize(typ.elem)
      [] typ.kind = "slice" -> [err |-> "Cannot duduct slice length", n |-> 0]
      [] OTHER -> [err |-> "", n |-> Bits(typ.kind) \div 8]

\* ------------------------------------------------------------ decoder

\* the source's ReadByte: c.eof is the error it returns when it is exhausted
ReadByte(c) ==
    IF c.pos >= Len(c.src) THEN [c |-> [c EXCEPT !.reads = c.reads + 1], b |-> 0, err |-> c.eof]
    ELSE [c |-> [c EXCEPT !.pos = c.pos + 1, !.reads = c.reads + 1],
          b |-> c.src[c.pos + 1], err |-> ""]

\* the loop of decoder.read over whole bytes: byte number i (from 0) of n
RECURSIVE readBytes(_, _, _, _)
\* one whole byte r of the loop
readBytesNext(i, n, value, r) ==
    IF r.err # "" THEN [c |-> r.c, v |-> Word(0), err |-> r.err]
    ELSE readBytes(r.c, i + 1, n, [value EXCEPT ![i + 1] = r.b])

readBytes(c, i, n, value) ==
    IF i >= n THEN [c |-> c, v |-> value, err |-> ""]
    ELSE readBytesNext(i, n, value, ReadByte(c))

\* readBits without the test of the bits that remain
readBits_unchecked(c1, nbits) ==
    [c |-> [c1 EXCEPT !.bitOffset = IF c1.bitOffset + nbits >= 8 THEN 0
                                     ELSE c1.bitOffset + nbits],
     v |-> Word((c1.currentByte \div Pow2(c1.bitOffset)) % Pow2(nbits)),
     err |-> ""]

\* the bits of a sub-byte read, taken from the current byte of c1
readBits(c1, nbits) ==
    IF nbits > 8 - c1.bitOffset
    THEN [c |-> c1, v |-> Word(0), err |-> "Insufficient bit count for reading"]
    ELSE [c |-> [c1 EXCEPT !.bitOffset = IF c1.bitOffset + nbits >= 8 THEN 0
                                         ELSE c1.bitOffset + nbits],
          v |-> Word((c1.currentByte \div Pow2(c1.bitOffset)) % Pow2(nbits)),
          err |-> ""]

\* a sub-byte read: r is the byte fetched when the bit offset is 0
readCurrent(c, nbits, r) ==
    IF r.err # "" THEN [c |-> r.c, v |-> Word(0), err |-> r.err]
    ELSE readBits([r.c EXCEPT !.currentByte = r.b], nbits)

read(c, nbits) ==
    IF nbits = 0 THEN [c |-> c, v |-> Word(0), err |-> "Unsupported zero bit operation"]
    ELSE IF nbits < 8
    THEN readCurrent(c, nbits,
                     IF c.bitOffset = 0 THEN ReadByte(c)
                     ELSE [c |-> c, b |-> c.currentByte, err |-> ""])
    ELSE IF nbits % 8 # 0 THEN [c |-> c, v |-> Word(0), err |-> "Unsupported bit span"]
    ELSE readBytes(c, 0, nbits \div 8, Word(0))

\* the store that ends readValue: r is what read(nbits) returned
readValueSet(c, path, typ, nbits, r) ==
    IF r.err # ""
    THEN [c |-> IF r.err # c.eof THEN Fail(r.c, r.err)
                ELSE [Fail(r.c, r.err) EXCEPT !.trace = Append(@, Event(r.c, "fail", path, Word(0), nbits))],
          v |-> Word(0)]
    ELSE [c |-> [r.c EXCEPT !.val = Set(@, path, Extend(r.v, Bits(typ.kind) \div 8)),
                            !.trace = Append(@, Event(c, "read", path, r.v, nbits))],
          v |-> r.v]

readValueBits(c, path, typ, nbits) == readValueSet(c, path, typ, nbits, read(c, nbits))

\* decoder.readValue: reads the field at path and stores it; tags may be nil
readValue(c, path, typ, tags) ==
    IF ~IsScalar(typ)
    THEN [c |-> Fail(c, "panic: reflect: Bits of non-arithmetic Type"), v |-> Word(0)]
    ELSE IF ~tags.nil /\ Bits(typ.kind) < tags.nbits
    THEN [c |-> Fail(c, "Field value has bitfield definition exceeding field size"), v |-> Word(0)]
    ELSE readValueBits(c, path, typ, IF tags.nil THEN Bits(typ.kind) ELSE tags.nbits)

decoder_field(c, path, typ, tags) == readValue(c, path, typ, tags).c

\* t.value = int(v): r is what readValue returned
decoder_layoutSet(ref, r) == [c |-> r.c, ref |-> [ref EXCEPT !.tags.value = ToNat(r.v)]]

decoder_layout(c, found, ref) ==
    decoder_layoutSet(ref, readValue(c, ref.value, Scalar(ref.kind), ref.tags))

\* decoder.array: the frame is the loop over arr.Len() elements; only a read of a
\* non-struct element is tested for io.EOF and truncate
decoder_array(c, path, typ, tags, ref) ==
    PushFrame(c, Frame("seq", path, typ.elem, Len(Get(c.val, path)),
                       tags.truncate /\ typ.elem.kind # "struct"))

\* decoder_sliceMake without reflect.MakeSlice: the slice keeps the length it had
decoder_sliceMake_kept(c, path, typ, tags, length) ==
    PushFrame(c, Frame("seq", path, typ.elem, Len(Get(c.val, path)), tags.truncate))

\* reflect.MakeSlice of length elements, then the loop over them
decoder_sliceMake(c, path, typ, tags, length) ==
    PushFrame([c EXCEPT !.val = Set(@, path, [j \in 1..length |-> Zero(typ.elem)]),
                        !.trace = Append(@, Event(c, "slice", path, Word(length), 0))],
              Frame("seq", path, typ.elem, length, tags.truncate))

\* the sizeOf case: sz is typeSize of the element type
decoder_sliceSizeOf(c, path, typ, tags, ref, sz) ==
    IF sz.err # "" THEN Fail(c, sz.err)
    ELSE IF sz.n = 0 THEN Fail(c, "panic: integer divide by zero")
    ELSE IF ref.tags.value % sz.n # 0
    THEN Fail(c, "Slice with size of slice is a non-multiple of structure size")
    ELSE decoder_sliceMake(c, path, typ, tags, ref.tags.value \div sz.n)

decoder_slice(c, path, typ, tags, ref) ==
    IF ~ref.valid
    THEN PushFrame(c, Frame("seq", path, typ.elem, Len(Get(c.val, path)), tags.truncate))
    ELSE IF ref.tags.format = "sizeOf"
    THEN decoder_sliceSizeOf(c, path, typ, tags, ref, typeSize(typ.elem))
    ELSE IF ref.tags.format = "countOf"
    THEN decoder_sliceMake(c, path, typ, tags, ref.tags.value)
    ELSE Fail(c, "Slice size cannot be determined")

\* ------------------------------------------------------------ traversal

handler_field(c, path, typ, tags) ==
    CASE c.h = "encoder" -> encoder_field(c, path, typ, tags)
      [] c.h = "decoder" -> decoder_field(c, path, typ, tags)
      [] c.h = "sizer" -> sizer_field(c, path, typ, tags)

handler_layout(c, found, ref) ==
    CASE c.h = "encoder" -> encoder_layout(c, found, ref)
      [] c.h = "decoder" -> decoder_layout(c, found, ref)
      [] c.h = "sizer" -> sizer_layout(c, found, ref)

handler_array(c, path, typ, tags, ref) ==
    CASE c.h = "encoder" -> encoder_array(c, path, typ, tags, ref)
      [] c.h = "decoder" -> decoder_array(c, path, typ, tags, ref)
      [] c.h = "sizer" -> sizer_array(c, path, typ, tags, ref)

handler_slice(c, path, typ, tags, ref) ==
    CASE c.h = "encoder" -> encoder_array(c, path, typ, tags, ref)
      [] c.h = "decoder" -> decoder_slice(c, path, typ, tags, ref)
      [] c.h = "sizer" -> sizer_array(c, path, typ, tags, ref)

\* An error returns through the pending calls: every transcode pops its backtrace
\* entry (the deferred pop); decoder.array / decoder.slice turn io.EOF into success
\* when the field is tagged truncate.
RECURSIVE Unwind(_)

\* Unwind with io.EOF turned into success by every array or slice, tagged or not
Unwind_anySequence(c) ==
    IF c.err = "" \/ c.frames = <<>> THEN c
    ELSE LET f == c.frames[Len(c.frames)]
         IN IF f.k = "struct" THEN Unwind([PopFrame(c) EXCEPT !.backtrace = pop(@)])
            ELSE IF c.h = "decoder" /\ c.err = "EOF"
            THEN [PopFrame(c) EXCEPT !.err = ""]
            ELSE Unwind(PopFrame(c))

Unwind(c) ==
    IF c.err = "" \/ c.frames = <<>> THEN c
    ELSE LET f == c.frames[Len(c.frames)]
         IN IF f.k = "struct" THEN Unwind([PopFrame(c) EXCEPT !.backtrace = pop(@)])
            ELSE IF c.h = "decoder" /\ f.trunc /\ c.err = "EOF"
            THEN [PopFrame(c) EXCEPT !.err = ""]
            ELSE Unwind(PopFrame(c))

\* the entry of transcode(val): a struct is pushed on the backtrace and its field
\* loop starts; any other value goes to handler.field with nil tags
transcodeEnter(c, path, typ) ==
    IF typ.kind # "struct" THEN handler_field(c, path, typ, NilTags)
    ELSE PushFrame([c EXCEPT !.backtrace = push(@, path)], Frame("struct", path, typ, 0, FALSE))

\* t.fieldMap[name] = ref, once handler.layout returned r without an error
transcodeStore(name, r) ==
    IF r.c.err # "" THEN r.c ELSE [r.c EXCEPT !.fieldMap = Store(@, name, r.ref)]

\* the tests of what fieldByName returned, then handler.layout
transcodeFound(c, found, ref) ==
    IF ~found.valid THEN Fail(c, "Cannot locate field name")
    ELSE IF TypeAt(c.typ, found.path).kind \notin {"slice", "array"}
    THEN Fail(c, "Referenced layout must be of type slice or array")
    ELSE transcodeStore(ref.tags.name, handler_layout(c, found.path, ref))

\* a sizeOf / countOf field: found is what fieldByName returned for the name
transcodeLayout(c, found, ref) ==
    transcodeFound([c EXCEPT !.refs = Append(@, [op |-> "find", gov |-> ref.value,
                                                 name |-> ref.tags.name,
                                                 valid |-> found.valid, path |-> found.path])],
                   found, ref)

\* an array or slice field: ref is t.fieldMap[fieldTyp.Name]
transcodeSequence(c, sf, fpath, tags, ref) ==
    IF sf.typ.kind = "array" THEN handler_array(c, fpath, sf.typ, tags, ref)
    ELSE handler_slice(c, fpath, sf.typ, tags, ref)

transcodeLookup(c, sf, fpath, tags, ref) ==
    transcodeSequence([c EXCEPT !.refs = Append(@, [op |-> "use", gov |-> ref.value,
                                                    name |-> sf.name,
                                                    valid |-> ref.valid, path |-> fpath])],
                      sf, fpath, tags, ref)

\* the switch on the kind of field sf at fpath, with its parsed tags
transcodeKind(c, sf, fpath, tags) ==
    IF tags.panic THEN Fail(c, "panic: TaggingError")
    ELSE CASE sf.typ.kind = "struct" -> transcodeEnter(c, fpath, sf.typ)
           [] sf.typ.kind \in {"array", "slice"} ->
                 transcodeLookup(c, sf, fpath, tags, Lookup(c.fieldMap, sf.name))
           [] OTHER ->
                 IF tags.format = "none" THEN handler_field(c, fpath, sf.typ, tags)
                 ELSE transcodeLayout(c, fieldByName(c, tags.name),
                                      [valid |-> TRUE, value |-> fpath,
                                       kind |-> sf.typ.kind, tags |-> tags])

\* one iteration of transcode's loop over the fields of the struct of frame f
transcodeField(c, f) ==
    transcodeKind(c, f.typ.fields[f.i], Append(f.path, f.i), parseFieldTags(f.typ.fields[f.i]))

\* element taking the elements from the last to the first
element_lastFirst(c, f) ==
    IF f.n + 1 - f.i > Len(Get(c.val, f.path)) THEN Fail(c, "panic: index out of range")
    ELSE transcodeEnter(c, Append(f.path, f.n + 1 - f.i), f.typ)

\* one iteration of the element loop of encoder.array, decoder.array, decoder.slice
element(c, f) ==
    IF f.i > Len(Get(c.val, f.path)) THEN Fail(c, "panic: index out of range")
    ELSE transcodeEnter(c, Append(f.path, f.i), f.typ)

\* One step of the walk: the innermost pending loop runs one iteration, or ends.
StepFrame(c, f) ==
    IF f.k = "struct"
    THEN IF f.i > Len(f.typ.fields) THEN [PopFrame(c) EXCEPT !.backtrace = pop(@)]
         ELSE Unwind(transcodeField([c EXCEPT !.frames[Len(c.frames)].i = f.i + 1], f))
    ELSE IF f.i > f.n THEN PopFrame(c)
         ELSE Unwind(element([c EXCEPT !.frames[Len(c.frames)].i = f.i + 1], f))

Step(c) == StepFrame(c, c.frames[Len(c.frames)])

RECURSIVE Run(_)
Run(c) == IF c.frames = <<>> THEN c ELSE Run(Step(c))

\* what size returns from the sizer s once the walk has ended
sizeResult(s) ==
    IF s.err # "" THEN [err |-> s.err, n |-> 0]
    ELSE IF s.nbits # 0 THEN [err |-> "Left-over bits in structure definition", n |-> 0]
    ELSE [err |-> "", n |-> s.nbytes]

size(v, typ) ==
    sizeResult(Run(Unwind(transcodeEnter(newTranscoder("sizer", v, typ), <<>>, typ))))

\* ------------------------------------------------------------ the types walked

U8 == Scalar("uint8")
U16 == Scalar("uint16")
U32 == Scalar("uint32")
U64 == Scalar("uint64")
GoUint == Scalar("uint")
GoInt == Scalar("int")

\* TestBitfieldEncoder, TestBitfieldDecoder
T_Bits ==
    Struct(<<F("A", GoInt, <<Bitfield(3)>>), F("B", GoInt, <<Bitfield(4)>>),
             F("C", GoInt, <<Bitfield(1)>>), F("D", GoInt, <<Bitfield(12)>>),
             F("E", GoInt, <<Bitfield(4)>>)>>)

\* two bit fields sharing one byte
T_Nibbles == Struct(<<F("A", U8, <<Bitfield(3)>>), F("B", U8, <<Bitfield(5)>>)>>)

\* TestEndianEncoder, TestEndianDecoder
T_Endian ==
    Struct(<<F("Big16", U16, <<Big>>), F("Little16", U16, <<>>),
             F("Big32", U32, <<Big>>), F("Little32", U32, <<Little>>),
             F("Big64", U64, <<Big>>), F("Little64", U64, <<>>)>>)

\* a big-endian field of kind uint, 64 bits wide
T_BigUint == Struct(<<F("X", GoUint, <<Big>>), F("Y", U16, <<Big>>)>>)

T_AB == Struct(<<F("A", U8, <<>>), F("B", U8, <<>>)>>)

\* TestArrayEncoder
T_ArrayEnc ==
    Struct(<<F("Count", U8, <<CountOf("Ts")>>), F("Size", U8, <<SizeOf("Ts")>>),
             F("Ts", Array(T_AB, 2), <<>>)>>)

\* TestSliceEncoder
T_SliceEnc ==
    Struct(<<F("Count", U8, <<CountOf("Ts")>>), F("Size", U8, <<SizeOf("Ts")>>),
             F("Ts", Slice(U8), <<>>)>>)

\* a relative sizeOf behind one byte
T_Relative ==
    Struct(<<F("Pad", U8, <<>>), F("Size", U8, <<SizeOfRelative("Data")>>),
             F("Data", Slice(U16), <<>>)>>)

T_as == Struct(<<F("A", U8, <<Bitfield(4)>>), F("B", U8, <<Bitfield(4)>>)>>)

\* TestArrayDecoder
T_ArrayDec ==
    Struct(<<F("Count", U8, <<CountOf("Cs")>>), F("Size", U8, <<SizeOf("Ss")>>),
             F("Cs", Slice(T_as), <<>>), F("Ss", Slice(T_as), <<>>),
             F("A", Array(U8, 1), <<>>)>>)

\* TestHeaderStyleDecoder, with a second header byte and a field after the slice
T_hdr == Struct(<<F("Count", U8, <<CountOf("Details")>>), F("Flags", U8, <<>>)>>)
T_detail == Struct(<<F("Val", U8, <<>>)>>)
T_Header ==
    Struct(<<F("Hdr", T_hdr, <<>>), F("Details", Slice(T_detail), <<>>),
             F("Tail", U8, <<>>)>>)

\* sizeOf over two-byte scalars
T_SizeOf16 ==
    Struct(<<F("Size", U8, <<SizeOf("Es")>>), F("Es", Slice(U16), <<>>),
             F("Tail", U8, <<>>)>>)

\* sizeOf over a composite holding a fixed array (3 bytes an element)
T_ElemArr == Struct(<<F("H", U8, <<>>), F("Arr", Array(U8, 2), <<>>)>>)
T_SizeOfArr ==
    Struct(<<F("Size", U8, <<SizeOf("Es")>>), F("Es", Slice(T_ElemArr), <<>>),
             F("Tail", U8, <<>>)>>)

\* sizeOf over a composite holding a nested composite (2 bytes an element)
T_Inner == Struct(<<F("A", U8, <<>>)>>)
T_ElemNested == Struct(<<F("In", T_Inner, <<>>), F("B", U8, <<>>)>>)
T_SizeOfNested ==
    Struct(<<F("Size", U8, <<SizeOf("Es")>>), F("Es", Slice(T_ElemNested), <<>>),
             F("Tail", U8, <<>>)>>)

\* a slice of composites that each hold a counted slice
T_Item == Struct(<<F("N", U8, <<CountOf("D")>>), F("D", Slice(U8), <<>>)>>)
T_Items == Struct(<<F("Items", Slice(T_Item), <<>>)>>)

\* TestAlignment, TestAlignmentDecoder
T_Aligned == Struct(<<F("Pad", U8, <<>>), F("Aligned", U32, <<Align(4)>>)>>)

\* a reserved bit field between two others in one byte
T_Reserved ==
    Struct(<<F("A", U8, <<Bitfield(3)>>), F("R", U8, <<BitfieldReserved(2)>>),
             F("B", U8, <<Bitfield(3)>>)>>)

\* a bit field wider than its 8-bit field, and an align value that is no number
T_Wide ==
    Struct(<<F("A", U8, <<>>), F("B", U8, <<Bitfield(9)>>), F("C", U8, <<Bitfield(7)>>)>>)
T_BadAlign == Struct(<<F("A", U8, <<>>), F("B", U8, <<AlignText("x")>>)>>)

\* the length of the fixed arrays decoded (TestTruncate has 1024 elements)
ArrayLen == 3

\* TestTruncate, then truncate over composite elements and over a counted slice
T_Trunc == Struct(<<F("A", Array(U8, ArrayLen), <<Truncate>>)>>)
T_TruncStructs == Struct(<<F("A", Array(T_AB, 2), <<Truncate>>)>>)
T_TruncSlice ==
    Struct(<<F("Count", U8, <<CountOf("S")>>), F("S", Slice(T_AB), <<Truncate>>)>>)

\* a fixed array governed by a countOf field
T_ArrayLim ==
    Struct(<<F("Count", U8, <<CountOf("Arr")>>), F("Arr", Array(U8, ArrayLen), <<>>),
             F("Tail", U8, <<>>)>>)

\* TestNestingEncoder
T_Nested == Struct(<<F("M", U8, <<>>), F("N", U8, <<>>)>>)
T_Nesting == Struct(<<F("A", U8, <<>>), F("B", U8, <<>>), F("C", T_Nested, <<>>)>>)

\* a countOf field whose name is declared by an earlier sibling composite only, and
\* one whose name both that sibling and the enclosing composite declare
T_Holder == Struct(<<F("X", Slice(U8), <<>>)>>)
T_Gov == Struct(<<F("N", U8, <<CountOf("X")>>)>>)
T_Siblings == Struct(<<F("A", T_Holder, <<>>), F("B", T_Gov, <<>>)>>)
T_Outer ==
    Struct(<<F("A", T_Holder, <<>>), F("B", T_Gov, <<>>), F("X", Array(U8, 2), <<>>)>>)

\* a countOf field whose name no composite declares
T_Missing == Struct(<<F("N", U8, <<CountOf("Zed")>>), F("Z", U8, <<>>)>>)

\* a counted slice, and a slice of the same name in a later sibling composite
T_Plain == Struct(<<F("D", Slice(U8), <<>>)>>)
T_Shared == Struct(<<F("A", T_Item, <<>>), F("B", T_Plain, <<>>)>>)

\* bit fields that do not fit the byte they start in
T_Span ==
    Struct(<<F("A", U8, <<Bitfield(5)>>), F("B", U8, <<Bitfield(5)>>),
             F("C", U8, <<Bitfield(6)>>)>>)

\* bit widths that total 11 bits
T_Odd == Struct(<<F("A", U8, <<>>), F("B", U8, <<Bitfield(3)>>)>>)

TypeOf(s) ==
    CASE s = "Bits" -> T_Bits
      [] s = "Nibbles" -> T_Nibbles
      [] s = "Endian" -> T_Endian
      [] s = "BigUint" -> T_BigUint
      [] s = "ArrayEnc" -> T_ArrayEnc
      [] s = "SliceEnc" -> T_SliceEnc
      [] s = "Relative" -> T_Relative
      [] s = "ArrayDec" -> T_ArrayDec
      [] s = "Header" -> T_Header
      [] s = "SizeOf16" -> T_SizeOf16
      [] s = "SizeOfArr" -> T_SizeOfArr
      [] s = "SizeOfNested" -> T_SizeOfNested
      [] s = "Items" -> T_Items
      [] s = "Aligned" -> T_Aligned
      [] s = "Reserved" -> T_Reserved
      [] s = "Wide" -> T_Wide
      [] s = "BadAlign" -> T_BadAlign
      [] s = "Trunc" -> T_Trunc
      [] s = "TruncStructs" -> T_TruncStructs
      [] s = "TruncSlice" -> T_TruncSlice
      [] s = "ArrayLim" -> T_ArrayLim
      [] s = "Nesting" -> T_Nesting
      [] s = "Siblings" -> T_Siblings
      [] s = "Outer" -> T_Outer
      [] s = "Missing" -> T_Missing
      [] s = "Shared" -> T_Shared
      [] s = "Span" -> T_Span
      [] s = "Odd" -> T_Odd

\* ------------------------------------------------------------ inputs

\* the longest slice among the values encoded
MaxLen == 2
\* the largest count or size a governing field holds in the inputs
MaxCount == 3
\* the payload bytes that follow the governing bytes of a decoded source
MaxPayload == 6

B(n) == FromInt(n, 1)
H(n) == FromInt(n, 2)
W(n) == FromInt(n, 4)
I(n) == FromInt(n, 8)

\* 0x0123456789ABCDEF, least significant byte first
X64 == <<239, 205, 171, 137, 103, 69, 35, 1>>

Bytes(n, base) == [k \in 1..n |-> B(base + k)]
Halves(n, base) == [k \in 1..n |-> H(base + 256 * k)]
Payload(n) == [k \in 1..n |-> k]

Schemas ==
    {"Bits", "Nibbles", "Endian", "BigUint", "ArrayEnc", "SliceEnc", "Relative",
     "ArrayDec", "Header", "SizeOf16", "SizeOfArr", "SizeOfNested", "Items",
     "Aligned", "Reserved", "Wide", "BadAlign", "Trunc", "TruncStructs", "TruncSlice",
     "ArrayLim", "Nesting", "Siblings", "Outer", "Missing", "Shared",
     "Span", "Odd"}

\* the values handed to Size and Encode
EncVals(s) ==
    CASE s = "Bits" ->
            {<<I(a), I(b), I(c), I(d), I(1)>> :
                a \in {0, 7, 9}, b \in {0, 8}, c \in {0, 1}, d \in {0, 4095}}
      [] s = "Nibbles" -> {<<B(a), B(b)>> : a \in {0, 5, 255}, b \in {0, 17}}
      [] s = "Endian" ->
            {<<H(h), H(291), W(19088743), W(19088743), X64, X64>> : h \in {291, 65534}}
      [] s = "BigUint" -> {<<X64, H(h)>> : h \in {291, 0}}
      [] s = "ArrayEnc" ->
            {<<B(c), B(v), <<<<B(1), B(2)>>, <<B(3), B(4)>>>>>> :
                c \in 0..MaxCount, v \in {0, 2, 4}}
      [] s = "SliceEnc" ->
            {<<B(c), B(v), Bytes(n, 11)>> : c \in 0..1, v \in 0..1, n \in 0..MaxLen}
      [] s = "Relative" -> {<<B(0), B(v), Halves(n, 7)>> : v \in {0, 4}, n \in 0..MaxLen}
      [] s = "ArrayDec" ->
            {<<B(0), B(0), [k \in 1..n |-> <<B(k), B(k)>>],
               [k \in 1..m |-> <<B(2 + k), B(2 + k)>>], <<B(85)>>>> :
                n \in 0..MaxLen, m \in 0..MaxLen}
      [] s = "Header" ->
            {<<<<B(c), B(0)>>, [k \in 1..n |-> <<B(k)>>], B(3)>> :
                c \in 0..1, n \in 0..MaxLen}
      [] s = "SizeOf16" -> {<<B(v), Halves(n, 7), B(9)>> : v \in {0, 2}, n \in 0..MaxLen}
      [] s = "SizeOfArr" ->
            {<<B(0), [k \in 1..n |-> <<B(k), <<B(k + 1), B(k + 2)>>>>], B(9)>> :
                n \in 0..MaxLen}
      [] s = "SizeOfNested" ->
            {<<B(0), [k \in 1..n |-> <<<<B(k)>>, B(k + 1)>>], B(9)>> : n \in 0..MaxLen}
      [] s = "Items" ->
            {<<[k \in 1..n |-> <<B(0), Bytes(IF k = 1 THEN a ELSE b, 10 * k)>>]>> :
                n \in 0..MaxLen, a \in 0..MaxLen, b \in 0..MaxLen}
      [] s = "Aligned" -> {<<B(p), W(255)>> : p \in {0, 1}}
      [] s = "Reserved" -> {<<B(a), B(r), B(b)>> : a \in {0, 5}, r \in {0, 3}, b \in {0, 7}}
      [] s = "Wide" -> {<<B(1), B(b), B(c)>> : b \in {0, 255}, c \in {0, 1}}
      [] s = "BadAlign" -> {<<B(1), B(2)>>}
      [] s = "Trunc" -> {<<Bytes(ArrayLen, 0)>>}
      [] s = "TruncStructs" -> {<<<<<<B(1), B(2)>>, <<B(3), B(4)>>>>>>}
      [] s = "TruncSlice" -> {<<B(0), [k \in 1..n |-> <<B(k), B(k)>>]>> : n \in 0..MaxLen}
      [] s = "ArrayLim" -> {<<B(c), Bytes(ArrayLen, 0), B(9)>> : c \in 0..2}
      [] s = "Nesting" -> {<<B(0), B(1), <<B(2), B(3)>>>>}
      [] s = "Siblings" -> {<<<<Bytes(n, 10)>>, <<B(c)>>>> : n \in 0..MaxLen, c \in 0..1}
      [] s = "Outer" -> {<<<<Bytes(n, 10)>>, <<B(0)>>, Bytes(2, 20)>> : n \in 0..MaxLen}
      [] s = "Missing" -> {<<B(0), B(1)>>}
      [] s = "Shared" ->
            {<<<<B(c), Bytes(a, 10)>>, <<Bytes(b, 20)>>>> :
                c \in 0..1, a \in 0..MaxLen, b \in 0..MaxLen}
      [] s = "Span" -> {<<B(a), B(b), B(1)>> : a \in {0, 21}, b \in {0, 10}}
      [] s = "Odd" -> {<<B(1), B(b)>> : b \in {0, 5}}

\* the byte streams handed to Decode
Sources(s) ==
    CASE s = "Bits" -> {<<199, 255, 31>>, <<199>>, <<0, 0, 0>>}
      [] s = "Nibbles" -> {<<>>, <<0>>, <<199>>, <<255>>}
      [] s = "Endian" ->
            {<<1, 35, 1, 35, 1, 35, 69, 103, 1, 35, 69, 103,
               1, 35, 69, 103, 137, 171, 205, 239, 1, 35, 69, 103, 137, 171, 205, 239>>}
      [] s = "BigUint" -> {<<1, 2, 3, 4, 5, 6, 7, 8, 1, 35>>}
      [] s = "ArrayEnc" -> {<<c, v, 1, 2, 3, 4>> : c \in 0..MaxCount, v \in 0..MaxCount}
      [] s = "SliceEnc" ->
            {<<c, v>> \o Payload(n) : c \in 0..MaxCount, v \in 0..MaxCount, n \in {2, MaxPayload}}
      [] s = "Relative" -> {<<0, v>> \o Payload(n) : v \in 0..MaxCount + 1, n \in {MaxPayload}}
      [] s = "ArrayDec" ->
            {<<c, v>> \o [k \in 1..n |-> 17 * k] :
                c \in 0..MaxCount, v \in 0..MaxCount, n \in {3, MaxPayload}}
      [] s = "Header" -> {<<c, 0>> \o Payload(n) : c \in 0..MaxCount + 1, n \in {3, MaxPayload}}
      [] s \in {"SizeOf16", "SizeOfArr", "SizeOfNested"} ->
            {<<v>> \o Payload(n) : v \in 0..MaxCount + 3, n \in {3, MaxPayload + 1}}
      [] s = "Items" -> {<<>>, <<1, 2>>}
      [] s = "Aligned" -> {<<0, 0, 0, 0, 255, 255, 255, 255>>, <<0, 0, 0>>}
      [] s = "Reserved" -> {<<>>, <<0>>, <<255>>}
      [] s = "Wide" -> {<<>>, <<1, 2, 3>>}
      [] s = "BadAlign" -> {<<>>, <<1, 2>>}
      [] s = "Trunc" -> {<<0>>} \cup {Payload(n) : n \in 0..ArrayLen + 1}
      [] s = "TruncStructs" -> {Payload(n) : n \in 0..4}
      [] s = "TruncSlice" -> {<<>>} \cup {<<c>> \o Payload(n) : c \in 0..MaxCount, n \in 0..4}
      [] s = "ArrayLim" -> {<<c>> \o Payload(n) : c \in 0..MaxCount, n \in {2, ArrayLen + 1}}
      [] s = "Nesting" -> {<<0, 1>>, <<0, 1, 2, 3>>}
      [] s = "Siblings" -> {<<>>, <<1>>, <<2, 1>>}
      [] s = "Outer" -> {<<0, 1, 2>>, <<2, 1, 2>>}
      [] s = "Missing" -> {<<>>, <<1, 2>>}
      [] s = "Shared" -> {<<c>> \o Payload(n) : c \in 0..MaxLen, n \in {0, 4}}
      [] s = "Span" -> {<<>>, <<255>>, <<171, 205>>}
      [] s = "Odd" -> {<<1>>, <<1, 5>>}

\* io.EOF from bytes.Buffer, another error from the tests' testReader and from Buffer
Readers == {"EOF", "Buffer underrun"}

\* ------------------------------------------------------------ the calls

\* BufferSize of the tests' testWriter
BufferSize == 512

VARIABLES
    sch,     \* the name of the struct type
    call,    \* "Encode" (to a testWriter), "EncodeByteBuffer" or "Decode"
    x,       \* the value handed to Size and Encode
    input,   \* the bytes handed to Decode by the caller
    pc,      \* where the caller is
    sizeX,   \* what Size(x) returned
    t,       \* the transcoder and handler of the call in progress
    encT,    \* the encoder's transcoder as Encode left it (as align found it)
    arg,     \* the argument of parseFieldTags or typeSize called on its own
    ret      \* what that call returned

vars == <<sch, call, x, input, pc, sizeX, t, encT, arg, ret>>

typ == TypeOf(sch)

Idle == newTranscoder("none", <<>>, Struct(<<>>))

NoSize == [err |-> "not called", n |-> 0]

Init ==
    /\ sch \in Schemas
    /\ pc = "start"
    /\ sizeX = NoSize
    /\ t = Idle
    /\ encT = Idle
    /\ arg = <<>>
    /\ ret = <<>>
    /\ \/ /\ call \in {"Encode", "EncodeByteBuffer"}
          /\ x \in EncVals(sch)
          /\ input = <<"EOF">>
       \/ /\ call = "Decode"
          /\ x = Zero(typ)
          /\ \E r \in Readers, b \in Sources(sch) : input = <<r>> \o b

\* Size(x), as NewBuffer and the caller of Encode ask for it
SizeCall ==
    /\ pc = "start" /\ call # "Decode"
    /\ sizeX' = size(x, typ)
    /\ pc' = "sized"
    /\ UNCHANGED <<arg, ret, sch, call, x, input, t, encT>>

\* Encode(writer, x) on a testWriter
EncodeCall ==
    /\ pc = "sized" /\ call = "Encode"
    /\ t' = Unwind(transcodeEnter([newTranscoder("encoder", x, typ) EXCEPT !.cap = BufferSize],
                                  <<>>, typ))
    /\ pc' = "walk"
    /\ UNCHANGED <<arg, ret, sch, call, x, input, sizeX, encT>>

\* EncodeByteBuffer(x): NewBuffer(x) is nil when Size fails, else Size(x) bytes long
EncodeByteBufferCall ==
    /\ pc = "sized" /\ call = "EncodeByteBuffer"
    /\ IF sizeX.err # ""
       THEN /\ t' = Fail(newTranscoder("encoder", x, typ), "Could not allocate byte buffer")
            /\ pc' = "walk"
       ELSE /\ t' = Unwind(transcodeEnter([newTranscoder("encoder", x, typ) EXCEPT !.cap = sizeX.n],
                                          <<>>, typ))
            /\ pc' = "walk"
    /\ UNCHANGED <<arg, ret, sch, call, x, input, sizeX, encT>>

\* Encode returns t.err to its caller
EncodeReturn ==
    /\ pc = "walk" /\ t.h = "encoder" /\ t.frames = <<>>
    /\ encT' = t
    /\ pc' = "encoded"
    /\ UNCHANGED <<arg, ret, sch, call, x, input, sizeX, t>>

Decoder(bytes, eof) ==
    Unwind(transcodeEnter([newTranscoder("decoder", Zero(typ), typ) EXCEPT !.src = bytes, !.eof = eof],
                          <<>>, typ))

\* Decode(reader, &v) with v the zero value: of the caller's bytes, or of the bytes a
\* successful Encode produced
DecodeCall ==
    /\ \/ /\ pc = "start" /\ call = "Decode"
          /\ t' = Decoder(Tail(input), Head(input))
       \/ /\ pc = "encoded" /\ encT.err = ""
          /\ t' = Decoder(encT.sink, Head(input))
    /\ pc' = "walk"
    /\ UNCHANGED <<arg, ret, sch, call, x, input, sizeX, encT>>

DecodeReturn ==
    /\ pc = "walk" /\ t.h = "decoder" /\ t.frames = <<>>
    /\ pc' = "done"
    /\ UNCHANGED <<arg, ret, sch, call, x, input, sizeX, t, encT>>

\* what the next step of the walk is
StepKind(c) ==
    LET f == c.frames[Len(c.frames)]
    IN IF f.k = "seq" THEN (IF f.i > f.n THEN "seqReturn" ELSE "element")
       ELSE IF f.i > Len(f.typ.fields) THEN "structReturn"
       ELSE LET sf == f.typ.fields[f.i]
            IN IF sf.typ.kind \in {"struct", "array", "slice"} THEN sf.typ.kind
               ELSE IF parseFieldTags(sf).format # "none" THEN "layout" ELSE "field"

Walk(kind) ==
    /\ pc = "walk" /\ t.frames # <<>> /\ StepKind(t) = kind
    /\ t' = Step(t)
    /\ UNCHANGED <<arg, ret, sch, call, x, input, pc, sizeX, encT>>

\* transcode's cases and the handlers' loops
Field == Walk("field")
Layout == Walk("layout")
ArrayField == Walk("array")
SliceField == Walk("slice")
NestedStruct == Walk("struct")
StructReturn == Walk("structReturn")
Element == Walk("element")
SeqReturn == Walk("seqReturn")

Next ==
    \/ SizeCall \/ EncodeCall \/ EncodeByteBufferCall \/ EncodeReturn
    \/ DecodeCall \/ DecodeReturn
    \/ Field \/ Layout \/ ArrayField \/ SliceField \/ NestedStruct
    \/ StructReturn \/ Element \/ SeqReturn

Spec == Init /\ [][Next]_vars

\* ------------------------------------------------------------ parseFieldTags alone

\* the keys of TestBareTags and TestFullTags
TagItems ==
    {Bitfield(3), BitfieldReserved(3), CountOf("D"), SizeOf("E"), SizeOfRelative("F"),
     Align(8), Truncate, Big, Little}

\* the most keys on one field
MaxKeys == 3

\* an annotation: up to MaxKeys different keys in some order
Annotations ==
    UNION {{a \in [1..n -> TagItems] : \A i, j \in 1..n : i < j => a[i].key # a[j].key} :
              n \in 1..MaxKeys}

\* nothing is encoded or decoded
NoCall ==
    /\ sch = "Bits" /\ x = <<>> /\ input = <<>> /\ sizeX = NoSize /\ t = Idle /\ encT = Idle

TagInit ==
    /\ NoCall
    /\ call = "parseFieldTags"
    /\ pc = "tags"
    /\ arg \in Annotations
    /\ ret = <<>>

\* testTags on a field of kind int annotated in the compact form
ParseBare ==
    /\ pc = "tags"
    /\ ret' = <<parseFieldTags(F("X", GoInt, arg))>>
    /\ pc' = "bare"
    /\ UNCHANGED <<sch, call, x, input, sizeX, t, encT, arg>>

\* testTags on the same keys in the structex form
ParseFull ==
    /\ pc = "bare"
    /\ ret' = Append(ret, parseFieldTags(FullF("X", GoInt, arg)))
    /\ pc' = "parsed"
    /\ UNCHANGED <<sch, call, x, input, sizeX, t, encT, arg>>

TagNext == ParseBare \/ ParseFull

TagSpec == TagInit /\ [][TagNext]_vars

\* ------------------------------------------------------------ typeSize alone

Elems == {U8, U16, U32}
Arrays == {Array(e, n) : e \in Elems, n \in 1..MaxLen}
ArraysOfArrays == {Array(a, n) : a \in Arrays, n \in 1..MaxLen}

\* the types of the fields of the structs measured
FieldTypes == Elems \cup Arrays \cup {Array(Array(U8, 2), 2), Slice(U8), T_AB, T_as, T_Item}

Structs ==
    {Struct(<<F("P", a, <<>>)>>) : a \in FieldTypes}
        \cup {Struct(<<F("P", a, <<>>), F("Q", b, <<>>)>>) : a \in FieldTypes, b \in FieldTypes}

StaticTypes ==
    Elems \cup Arrays \cup ArraysOfArrays \cup Structs
        \cup {Slice(U8), Array(Slice(U8), 2), T_Bits, T_Nibbles, T_ElemArr, T_ElemNested}

TypeInit ==
    /\ NoCall
    /\ call = "typeSize"
    /\ pc = "type"
    /\ arg \in StaticTypes
    /\ ret = <<>>

TypeSizeCall ==
    /\ pc = "type"
    /\ ret' = typeSize(arg)
    /\ pc' = "typed"
    /\ UNCHANGED <<sch, call, x, input, sizeX, t, encT, arg>>

TypeNext == TypeSizeCall

TypeSpec == TypeInit /\ [][TypeNext]_vars

\* ------------------------------------------------------------ encoder.align alone

\* the bytes written before align is called, and the largest boundary
MaxOffset == 3
MaxBoundary == 4
\* the rejected bytes that are counted; further ones leave the count as it is
MaxRejected == 2

\* an encoder that has written n bytes to a sink of capacity cap and holds b pending
\* bits in its current byte
Cursor(n, cap, b, cur) ==
    [newTranscoder("encoder", <<>>, Struct(<<>>)) EXCEPT
        !.sink = Payload(n), !.byteOffset = n, !.cap = cap,
        !.bitOffset = b, !.currentByte = cur]

Cursors ==
    {Cursor(n, cap, b, cur) :
        n \in 0..MaxOffset, cap \in {0, 1, 2, MaxOffset, BufferSize},
        b \in 0..7, cur \in {0, 1, 127}}

AlignInit ==
    /\ sch = "Bits" /\ x = <<>> /\ input = <<>> /\ sizeX = NoSize
    /\ call = "align"
    /\ pc = "align"
    /\ arg \in 1..MaxBoundary
    /\ ret = <<>>
    /\ t \in {c \in Cursors : c.cap >= Len(c.sink) /\ c.currentByte < Pow2(c.bitOffset)}
    /\ encT = t

\* if e.bitOffset != 0 { e.write(0, 8-e.bitOffset) }: write returns no error
AlignFlush ==
    /\ pc = "align"
    /\ t' = IF t.bitOffset # 0 THEN write(t, Word(0), 8 - t.bitOffset) ELSE t
    /\ pc' = "pad"
    /\ UNCHANGED <<sch, call, x, input, sizeX, encT, arg, ret>>

\* the test of the loop "for e.byteOffset%uint64(val) != 0", and return nil
AlignTest ==
    /\ pc = "pad"
    /\ IF t.byteOffset % arg # 0
       THEN pc' = "padding" /\ ret' = ret
       ELSE pc' = "aligned" /\ ret' = <<"">>
    /\ UNCHANGED <<sch, call, x, input, sizeX, t, encT, arg>>

\* the body of the loop: e.write(0, 8), which returns no error
AlignPad ==
    /\ pc = "padding"
    /\ t' = [write(t, Word(0), 8) EXCEPT
                !.rejected = IF @ > MaxRejected THEN MaxRejected ELSE @]
    /\ pc' = "pad"
    /\ UNCHANGED <<sch, call, x, input, sizeX, encT, arg, ret>>

AlignNext == AlignFlush \/ AlignTest \/ AlignPad

\* the call runs on: the code is sequential and takes its next step
AlignSpec == AlignInit /\ [][AlignNext]_vars /\ WF_vars(AlignNext)

\* ------------------------------------------------------------ properties

\* Encode has returned to its caller / has returned success
EncodeDone == encT.h = "encoder"
EncodeOk == EncodeDone /\ encT.err = ""

\* Decode of the bytes a successful Encode produced has returned
RoundTripDone == pc = "done" /\ call # "Decode"

\* Decode of the caller's bytes has returned
DecodeDone == pc = "done" /\ call = "Decode"

\* the bytes the caller handed to Decode
Stream == Tail(input)

\* equality on every field that is not tagged reserved, sequence lengths included
RECURSIVE SameFields(_, _, _)
SameFields(ty, a, b) ==
    CASE ty.kind = "struct" ->
            \A i \in 1..Len(ty.fields) :
                parseFieldTags(ty.fields[i]).reserved \/ SameFields(ty.fields[i].typ, a[i], b[i])
      [] ty.kind \in {"array", "slice"} ->
            Len(a) = Len(b) /\ \A i \in 1..Len(a) : SameFields(ty.elem, a[i], b[i])
      [] OTHER -> a = b

\* the bytes one value of a type without slices occupies in the stream
RECURSIVE ElemBits(_)
ElemBits(ty) ==
    CASE ty.kind = "struct" ->
            IF Len(ty.fields) = 0 THEN 0
            ELSE LET last == ty.fields[Len(ty.fields)]
                 IN ElemBits(Struct(SubSeq(ty.fields, 1, Len(ty.fields) - 1)))
                    + (IF IsScalar(last.typ) THEN parseFieldTags(last).nbits
                       ELSE ElemBits(last.typ))
      [] ty.kind = "array" -> ty.len * ElemBits(ty.elem)
      [] OTHER -> Bits(ty.kind)

ElemBytes(ty) == ElemBits(ty) \div 8

\* bit k of a byte stream, least significant bit of each byte first
StreamBit(bytes, k) == (bytes[k \div 8 + 1] \div Pow2(k % 8)) % 2

\* the total width of the fields before field i of a struct of scalar fields
WidthBefore(ty, i) == ElemBits(Struct(SubSeq(ty.fields, 1, i - 1)))

\* field i of a struct of bit fields occupies its own bits of the stream
FieldInStream(ty, i, v, bytes) ==
    \A j \in 0..(parseFieldTags(ty.fields[i]).nbits - 1) :
        /\ WidthBefore(ty, i) + j < 8 * Len(bytes)
        /\ StreamBit(bytes, WidthBefore(ty, i) + j) = StreamBit(v, j)

BitSchemas == {"Bits", "Nibbles"}

\* TestBitfieldEncoder's value and bytes
BitsExample == <<I(7), I(8), I(1), I(4095), I(1)>>
BitsBytes == <<199, 255, 31>>

\* C1: round trip; whenever Encode succeeded, Decode of the bytes it produced into a
\* zero value succeeds and yields a value equal to x on every non-reserved field
C1_RoundTrip == RoundTripDone => (t.err = "" /\ SameFields(typ, t.val, x))

\* C2: Size agrees with Encode; when Size and Encode both succeed, Size(x) is the
\* number of bytes Encode handed to the sink, and the Buffer of NewBuffer(x) is
\* filled exactly, with no byte rejected and none unused
C2_SizeAgrees ==
    (EncodeOk /\ sizeX.err = "") =>
        /\ sizeX.n = Len(encT.sink) + encT.rejected
        /\ call = "EncodeByteBuffer" => (encT.rejected = 0 /\ Len(encT.sink) = encT.cap)

\* C3: Encode bit packing; a bit field of width w behind fields totalling p bits
\* occupies stream bits p..p+w-1, and widths 3,4,1,12,4 holding 7,8,1,0xFFF,1 are
\* emitted as C7 FF 1F
C3_BitPacking ==
    (EncodeOk /\ sch \in BitSchemas) =>
        /\ \A i \in 1..Len(typ.fields) : FieldInStream(typ, i, x[i], encT.sink)
        /\ (sch = "Bits" /\ x = BitsExample) => encT.sink = BitsBytes

\* C4: Decode bit unpacking; every bit field is read at the stream position equal to
\* the sum of the preceding widths, and C7 FF 1F decodes into widths 3,4,1,12,4 as
\* 7,8,1,0xFFF,1
C4_BitUnpacking ==
    (DecodeDone /\ sch \in BitSchemas /\ 8 * Len(Stream) >= ElemBits(typ)) =>
        /\ t.err = ""
        /\ \A i \in 1..Len(typ.fields) :
              /\ FieldInStream(typ, i, t.val[i], Stream)
              /\ \A j \in parseFieldTags(typ.fields[i]).nbits..(Bits(typ.fields[i].typ.kind) - 1) :
                    StreamBit(t.val[i], j) = 0
        /\ (sch = "Bits" /\ Stream = BitsBytes) => t.val = BitsExample

EndianSchemas == {"Endian", "BigUint"}

\* the bytes of the scalar fields 1..n of a struct in stream order, a field tagged
\* big most significant byte first
RECURSIVE EndianBytes(_, _, _)
EndianBytes(ty, v, n) ==
    IF n = 0 THEN <<>>
    ELSE EndianBytes(ty, v, n - 1)
         \o (IF parseFieldTags(ty.fields[n]).endian = "big" THEN Reverse(v[n]) ELSE v[n])

\* C5: Encode endianness; a 16-, 32- or 64-bit field tagged big is emitted most
\* significant byte first, any other least significant byte first, for every value
\* and every integer kind of that width
C5_EncodeEndian ==
    (EncodeOk /\ sch \in EndianSchemas) =>
        encT.sink = EndianBytes(typ, x, Len(typ.fields))

\* C6: Decode endianness; a field tagged big takes the stream bytes most significant
\* byte first (01 23 is 0x0123), an untagged field least significant byte first
C6_DecodeEndian ==
    (DecodeDone /\ sch \in EndianSchemas) =>
        /\ t.err = ""
        /\ Stream = EndianBytes(typ, t.val, Len(typ.fields))

\* the struct that declares the field at path, and that field
Parent(path) == SubSeq(path, 1, Len(path) - 1)
FieldAt(path) == TypeAt(typ, Parent(path)).fields[path[Len(path)]]

\* the sequence that c resolved the governing field at g to
Governed(c, g) ==
    c.refs[CHOOSE k \in 1..Len(c.refs) : c.refs[k].op = "find" /\ c.refs[k].gov = g].path

\* what a governing field stands for: e is the record of the call of encoder.layout
LayoutExpected(e) ==
    LET tg == parseFieldTags(FieldAt(e.path))
        seq == Governed(t, e.path)
    IN IF ~IsZero(Get(x, e.path)) THEN Extend(Get(x, e.path), 8)
       ELSE IF tg.format = "countOf" THEN Word(Len(Get(x, seq)))
       ELSE Word(Len(Get(x, seq)) * ElemBytes(TypeAt(typ, seq).elem)
                 - (IF tg.relative THEN e.off ELSE 0))

\* TestArrayEncoder's bytes
ArrayEncBytes == <<2, 4, 1, 2, 3, 4>>

\* C7: Encode of a governing field; a non-zero sizeOf / countOf field is written
\* verbatim, a zero one as the sequence's length (countOf) or element size times
\* length (sizeOf), less the byte offset when relative; Count = 0, Size = 0 over two
\* 2-byte elements encode as 02 04 and the four element bytes
C7_GoverningFieldEncode ==
    /\ t.h = "encoder" =>
          \A k \in 1..Len(t.trace) :
              t.trace[k].h = "layout" =>
                  /\ t.trace[k].v = LayoutExpected(t.trace[k])
                  /\ t.rejected = 0 => t.sink[t.trace[k].at + 1] = LayoutExpected(t.trace[k])[1]
    /\ (EncodeOk /\ sch = "ArrayEnc" /\ x[1] = B(0) /\ x[2] = B(0)) => encT.sink = ArrayEncBytes

\* Encode wrote a computed count and a computed size before the two elements
C7_Witness ==
    /\ EncodeOk /\ sch = "ArrayEnc" /\ x[1] = B(0) /\ x[2] = B(0)
    /\ encT.sink = ArrayEncBytes
    /\ Len(encT.trace) >= 2 /\ encT.trace[1].h = "layout" /\ encT.trace[2].h = "layout"

\* the slice a countOf field governs in a decoded type, its governing byte being the
\* first of the source
CountedSchemas == {"ArrayDec", "Header"}
CountedPath == IF sch = "ArrayDec" THEN <<3>> ELSE <<2>>

\* element i of the counted slice as the source holds it
CountedElement(src, i) ==
    IF sch = "ArrayDec" THEN <<B(src[2 + i] % 16), B(src[2 + i] \div 16)>>
    ELSE <<B(src[2 + i])>>

\* the fields declared after the counted slice read the bytes that follow it
CountedRest(src, v) ==
    IF sch = "ArrayDec"
    THEN /\ Len(v[4]) = src[2]
         /\ \A i \in 1..Len(v[4]) :
               v[4][i] = <<B(src[2 + src[1] + i] % 16), B(src[2 + src[1] + i] \div 16)>>
         /\ v[5] = <<B(src[2 + src[1] + src[2] + 1])>>
    ELSE v[3] = B(src[2 + src[1] + 1])

SizeOfSchemas == {"SizeOf16", "SizeOfArr", "SizeOfNested"}
EsBytes == ElemBytes(typ.fields[2].typ.elem)

\* C9: non-multiple sizeOf; a decoded sizeOf value that is no multiple of the element
\* size makes Decode fail, with the slice not resized and no element byte read
C9_NonMultiple ==
    (DecodeDone /\ sch \in SizeOfSchemas /\ Len(t.src) >= 1 /\ t.src[1] % EsBytes # 0) =>
        (t.err # "" /\ Len(t.val[2]) = 0 /\ t.pos = 1)

\* C10: sizeOf byte span on decode; a sizeOf value v, a multiple of the element size,
\* gives the slice v / element-size elements and makes it consume exactly v bytes
C10_SizeOfSpan ==
    (DecodeDone /\ sch \in SizeOfSchemas /\ t.err = "" /\ t.src[1] % EsBytes = 0) =>
        (Len(t.val[2]) = t.src[1] \div EsBytes /\ t.pos = 1 + t.src[1] + 1)

\* the types whose last field is a sequence tagged truncate, the path of that field,
\* the bytes the source holds before it and the elements it is to hold
TruncSchemas == {"Trunc", "TruncStructs", "TruncSlice"}
TruncPath == IF sch = "TruncSlice" THEN <<2>> ELSE <<1>>
TruncBase == IF sch = "TruncSlice" THEN 1 ELSE 0
TruncElem == ElemBytes(TypeAt(typ, TruncPath).elem)
TruncCount == IF sch = "TruncSlice" THEN Stream[1] ELSE TypeAt(typ, TruncPath).len

\* element i of the truncated sequence as the source holds it
TruncElement(i) ==
    IF TruncElem = 1 THEN B(Stream[TruncBase + i])
    ELSE <<B(Stream[TruncBase + 2 * i - 1]), B(Stream[TruncBase + 2 * i])>>

\* the source ends inside the sequence tagged truncate
TruncExhausted ==
    /\ DecodeDone /\ sch \in TruncSchemas /\ t.eof = "EOF"
    /\ Len(Stream) >= TruncBase
    /\ Len(Stream) < TruncBase + TruncCount * TruncElem

\* C11: truncate; when the source is exhausted while Decode fills an array or slice
\* tagged truncate, of scalar or composite elements, Decode succeeds, the elements
\* read keep their decoded values and the remaining ones stay zero
C11_Truncate ==
    TruncExhausted =>
        /\ t.err = ""
        /\ Len(Get(t.val, TruncPath)) = TruncCount
        /\ \A i \in 1..TruncCount :
              /\ TruncBase + i * TruncElem <= Len(Stream) =>
                    Get(t.val, TruncPath)[i] = TruncElement(i)
              /\ TruncBase + (i - 1) * TruncElem >= Len(Stream) =>
                    Get(t.val, TruncPath)[i] = Zero(TypeAt(typ, TruncPath).elem)

\* the field at path lies in an array or slice field tagged truncate
InTruncate(path) ==
    \E k \in 1..Len(path) :
        /\ TypeAt(typ, SubSeq(path, 1, k - 1)).kind = "struct"
        /\ TypeAt(typ, SubSeq(path, 1, k)).kind \in {"array", "slice"}
        /\ parseFieldTags(FieldAt(SubSeq(path, 1, k))).truncate

\* C12: source errors abort Decode; when the source's ReadByte fails while a field
\* outside every truncate-tagged array or slice is read, Decode returns that error,
\* and after the failing read it calls ReadByte no more and assigns no field
C12_SourceErrorAborts ==
    t.h = "decoder" =>
        \A k \in 1..Len(t.trace) :
            (t.trace[k].h = "fail" /\ ~InTruncate(t.trace[k].path)) =>
                /\ k = Len(t.trace)
                /\ t.reads = t.trace[k].reads
                /\ t.pos = t.trace[k].at
                /\ t.frames = <<>>
                /\ t.err = t.eof

\* Decode of 04 00 01 02 03 into the header type: the fourth detail meets the end of
\* the source, after five bytes were read and assigned
C12_Witness ==
    /\ DecodeDone /\ sch = "Header" /\ t.src = <<4, 0, 1, 2, 3>>
    /\ t.err = t.eof
    /\ Len(t.trace) = 7 /\ t.trace[7].h = "fail" /\ t.trace[7].path = <<2, 4, 1>>
    /\ t.reads = 6 /\ t.pos = 5
    /\ t.val = <<<<B(4), B(0)>>, <<<<B(1)>>, <<B(2)>>, <<B(3)>>, <<B(0)>>>>, B(0)>>

\* the alignment the annotation of the field at path asks for, 0 when none
AlignmentAt(path) ==
    IF path # <<>> /\ TypeAt(typ, Parent(path)).kind = "struct"
    THEN parseFieldTags(FieldAt(path)).alignment ELSE 0

\* C13: alignment; a field tagged align=N is written and read at a stream offset that
\* is a multiple of N; a 1-byte field and a 4-byte field tagged align=4 encode to 8
\* bytes with bytes 1..3 zero, and 00 00 00 00 FF FF FF FF decodes the aligned field
\* as 0xFFFFFFFF
C13_Alignment ==
    /\ t.h \in {"encoder", "decoder"} =>
          \A k \in 1..Len(t.trace) :
              (t.trace[k].h \in {"field", "read"} /\ AlignmentAt(t.trace[k].path) > 0) =>
                  t.trace[k].at % AlignmentAt(t.trace[k].path) = 0
    /\ (EncodeOk /\ sch = "Aligned") => encT.sink = x[1] \o <<0, 0, 0>> \o x[2]
    /\ (DecodeDone /\ sch = "Aligned" /\ Len(Stream) = 8) =>
          (t.err = "" /\ t.val[2] = SubSeq(Stream, 5, 8))

\* C14: reserved fields encode as zero; Encode writes zero in every bit of a field
\* tagged reserved whatever its value, and the other fields of the byte keep their
\* own bits
C14_ReservedZero ==
    (EncodeOk /\ sch = "Reserved") =>
        \A i \in 1..Len(typ.fields) :
            FieldInStream(typ, i,
                          IF parseFieldTags(typ.fields[i]).reserved THEN ZeroBytes(1) ELSE x[i],
                          encT.sink)

\* the value of a call of encoder.write does not fit the n bits it is written in
Overflows(e) ==
    /\ e.h \in {"field", "layout"}
    /\ e.n \in 1..63
    /\ \E j \in e.n..63 : StreamBit(e.v, j) = 1

\* C15: overflow is an error; when the value Encode is about to write does not fit
\* the field's bit width, Encode returns an error and none of the value's bits reach
\* the pending byte or the sink
C15_Overflow ==
    EncodeDone =>
        \A k \in 1..Len(encT.trace) :
            Overflows(encT.trace[k]) =>
                /\ encT.err # ""
                /\ k = Len(encT.trace)
                /\ Len(encT.sink) = encT.trace[k].at

\* the types with a malformed annotation on their second field
DefinitionSchemas == {"Wide", "BadAlign"}

\* the walk of Encode or Decode has come to its end
WalkEnded == pc = "walk" /\ t.frames = <<>> /\ t.h \in {"encoder", "decoder"}

\* C16: definition errors; a bitfield width above the field's storage width (9 on an
\* 8-bit field) or a bitfield / align value that is no number fails with a
\* TaggingError before any byte is read from the source or written to the sink
C16_DefinitionError ==
    (WalkEnded /\ sch \in DefinitionSchemas /\ call # "EncodeByteBuffer") =>
        /\ t.err = "panic: TaggingError"
        /\ t.sink = <<>>
        /\ t.reads = 0

\* two keys that set the same part of the descriptor: the later one stands
Conflicts(a, b) ==
    \/ {a.key, b.key} = {"big", "little"}
    \/ {a.key, b.key} = {"sizeOf", "countOf"}

\* the descriptor d shows the key e of the annotation
Reflected(e, d) ==
    CASE e.key = "bitfield" ->
            d.nbits = Atoi(SplitFirst(e.val)).n /\ d.reserved = Contains(e.val, "reserved")
      [] e.key = "sizeOf" ->
            d.format = "sizeOf" /\ d.name = e.val[1] /\ d.relative = Contains(e.val, "relative")
      [] e.key = "countOf" -> d.format = "countOf" /\ d.name = e.val[1]
      [] e.key = "align" -> d.alignment = Atoi(e.val).n
      [] e.key = "truncate" -> d.truncate
      [] e.key = "big" -> d.endian = "big"
      [] e.key = "little" -> d.endian = "little"

\* C17: the two annotation syntaxes are equivalent; for the same keys in the same
\* order the compact form and the structex form parse to identical descriptors, and
\* every key of the annotation shows in the descriptor
C17_SyntaxesEquivalent ==
    pc = "parsed" =>
        /\ ret[1] = ret[2]
        /\ \A i \in 1..Len(arg) :
              (\A j \in (i + 1)..Len(arg) : ~Conflicts(arg[i], arg[j])) =>
                  (Reflected(arg[i], ret[1]) /\ Reflected(arg[i], ret[2]))

\* C18: sink overrun is reported; when the sink rejects a byte Encode returns an
\* error and hands the sink nothing further, and never returns success
C18_SinkOverrun ==
    (EncodeDone /\ encT.rejected > 0) => (encT.err # "" /\ encT.rejected = 1)

\* C19: a non-zero governing field limits a fixed array on decode; with the countOf
\* field read as k, exactly k elements of the array are read from the source, the
\* other elements stay untouched and take no byte, and the next field reads on
C19_ArrayLimit ==
    (DecodeDone /\ sch = "ArrayLim" /\ Len(Stream) >= 1 /\ Stream[1] \in 1..ArrayLen
                /\ Len(Stream) >= Stream[1] + 2) =>
        /\ t.err = ""
        /\ \A i \in 1..ArrayLen :
              t.val[2][i] = IF i <= Stream[1] THEN B(Stream[1 + i]) ELSE B(0)
        /\ t.val[3] = B(Stream[Stream[1] + 2])
        /\ t.pos = Stream[1] + 2

\* the type holds a variable-length sequence somewhere
RECURSIVE HasSlice(_)
HasSlice(ty) ==
    CASE ty.kind = "slice" -> TRUE
      [] ty.kind = "array" -> HasSlice(ty.elem)
      [] ty.kind = "struct" -> \E i \in 1..Len(ty.fields) : HasSlice(ty.fields[i].typ)
      [] OTHER -> FALSE

\* C20: static size; typeSize of a type without a variable-length sequence is the sum
\* of its scalar fields' bit widths, its nested composites' sizes and element size
\* times length of its arrays, arrays of arrays included, in bytes; typeSize of a
\* type that holds a variable-length sequence fails
C20_StaticSize ==
    pc = "typed" =>
        IF HasSlice(arg) THEN ret.err # ""
        ELSE ret.err = "" /\ ret.n = ElemBits(arg) \div 8

\* the field called name of the innermost composite at or around path p that declares
\* one; valid is FALSE when none does
RECURSIVE Declared(_, _)
Declared(p, name) ==
    IF TypeAt(typ, p).kind = "struct" /\ FieldIndex(TypeAt(typ, p), name) # 0
    THEN [valid |-> TRUE, path |-> Append(p, FieldIndex(TypeAt(typ, p), name))]
    ELSE IF p = <<>> THEN [valid |-> FALSE, path |-> <<>>]
    ELSE Declared(Parent(p), name)

\* C21: layout name resolution order; a sizeOf / countOf field naming N refers to
\* field N of the innermost composite being walked that declares N, from the one
\* holding the governing field outward; a composite whose traversal has finished is
\* never searched, and when no composite being walked declares N the traversal fails
\* with a reference error
C21_ResolutionOrder ==
    t.h \in {"encoder", "decoder"} =>
        \A k \in 1..Len(t.refs) :
            t.refs[k].op = "find" =>
                /\ t.refs[k].valid = Declared(Parent(t.refs[k].gov), t.refs[k].name).valid
                /\ t.refs[k].path = Declared(Parent(t.refs[k].gov), t.refs[k].name).path
                /\ (~t.refs[k].valid) => (k = Len(t.refs) /\ t.err = "Cannot locate field name")

\* the composites whose transcode has started and has not returned, outermost first
RECURSIVE Walked(_)
Walked(frames) ==
    IF frames = <<>> THEN <<>>
    ELSE Walked(SubSeq(frames, 1, Len(frames) - 1))
         \o (IF frames[Len(frames)].k = "struct" THEN <<frames[Len(frames)].path>> ELSE <<>>)

\* the active entries vals[0..len-1] of the backtrace
Active(s) == [k \in 1..s.len |-> s.vals[k]]

\* C22: backtrace invariant; at every point of a traversal the active entries of the
\* backtrace are exactly the composites whose traversal has started and not finished,
\* innermost last, so that a transcode that has returned leaves the entries as they
\* were before it was called
C22_Backtrace ==
    (pc = "walk" /\ t.h \in {"encoder", "decoder"}) =>
        /\ t.backtrace.len \in 0..Len(t.backtrace.vals)
        /\ Active(t.backtrace) = Walked(t.frames)

\* p comes before q in declaration order, depth first: p is a proper prefix of q, or
\* the two part at an index where p holds the smaller one
RECURSIVE PathLess(_, _)
PathLess(p, q) ==
    IF q = <<>> THEN FALSE
    ELSE IF p = <<>> THEN TRUE
    ELSE IF Head(p) # Head(q) THEN Head(p) < Head(q)
    ELSE PathLess(Tail(p), Tail(q))

\* every scalar field of the type is a whole number of bytes wide
RECURSIVE WholeBytes(_)
WholeBytes(ty) ==
    CASE ty.kind = "struct" ->
            \A i \in 1..Len(ty.fields) :
                IF IsScalar(ty.fields[i].typ) THEN parseFieldTags(ty.fields[i]).nbits % 8 = 0
                ELSE WholeBytes(ty.fields[i].typ)
      [] ty.kind \in {"array", "slice"} -> WholeBytes(ty.elem)
      [] OTHER -> TRUE

\* the bytes of a whole-byte event e are the bytes of stream from the place the
\* handler stood at, as far as the stream goes
InPlace(e, stream) ==
    \A j \in 1..(e.n \div 8) : e.at + j <= Len(stream) => stream[e.at + j] = e.v[j]

\* TestNestingEncoder's value and bytes
NestingExample == <<B(0), B(1), <<B(2), B(3)>>>>
NestingBytes == <<0, 1, 2, 3>>

\* C23: traversal order; the handler is invoked on fields in declaration order, every
\* field of a nested composite and every element of an array or slice, in index
\* order, before the next sibling of the enclosing composite, so the bytes Encode
\* emits and the bytes Decode consumes follow declaration order depth first
C23_TraversalOrder ==
    /\ t.h \in {"encoder", "decoder"} =>
          /\ \A k \in 1..(Len(t.trace) - 1) :
                /\ PathLess(t.trace[k].path, t.trace[k + 1].path)
                /\ t.trace[k].at <= t.trace[k + 1].at
          /\ \A k \in 1..Len(t.trace) :
                /\ (t.h = "encoder" /\ t.trace[k].h \in {"field", "layout"} /\ WholeBytes(typ)) =>
                      InPlace(t.trace[k], t.sink)
                /\ (t.h = "decoder" /\ t.trace[k].h = "read" /\ t.trace[k].n % 8 = 0) =>
                      InPlace(t.trace[k], t.src)
    /\ (EncodeOk /\ sch = "Nesting") => encT.sink = NestingBytes
    /\ (DecodeDone /\ sch = "Nesting" /\ Stream = NestingBytes) => t.val = NestingExample

\* Encode of a header with a zero count, two details and a tail went through the
\* nested header, then the two elements, then the tail
C23_Witness ==
    /\ EncodeOk /\ sch = "Header" /\ x = <<<<B(0), B(0)>>, <<<<B(1)>>, <<B(2)>>>>, B(3)>>
    /\ encT.sink = <<2, 0, 1, 2, 3>>
    /\ [k \in 1..Len(encT.trace) |-> encT.trace[k].path]
          = <<<<1, 1>>, <<1, 2>>, <<2>>, <<2, 1, 1>>, <<2, 2, 1>>, <<3>>>>

\* C24: byte offset invariant; in every state of an Encode the encoder's byteOffset is
\* the number of bytes the sink has accepted since the call began, and in every state
\* of a Decode the decoder's byteOffset is the number of bytes read from the source
C24_ByteOffset ==
    /\ t.h = "encoder" => t.byteOffset = Len(t.sink)
    /\ t.h = "decoder" => t.byteOffset = t.pos

\* the scalar field the walk of c handles next, its path and its width in bits
NextField(c) == c.frames[Len(c.frames)].typ.fields[c.frames[Len(c.frames)].i]
NextPath(c) == Append(c.frames[Len(c.frames)].path, c.frames[Len(c.frames)].i)
NextBits(c) == parseFieldTags(NextField(c)).nbits

\* the decoder c is about to read a scalar field of fewer than 8 bits
SubByteRead(c) ==
    /\ pc = "walk" /\ c.h = "decoder" /\ c.frames # <<>>
    /\ StepKind(c) \in {"field", "layout"}
    /\ NextBits(c) \in 1..7

\* the byte a sub-byte read of c takes its bits from
ByteRead(c) == IF c.bitOffset # 0 THEN c.currentByte ELSE c.src[c.pos + 1]

\* what the read of n bits at path made of the decoder c, d being the decoder after it
SubByteResult(c, d, path, n) ==
    IF c.bitOffset # 0 /\ n > 8 - c.bitOffset
    THEN /\ d.err = "Insufficient bit count for reading"
         /\ d.pos = c.pos /\ d.reads = c.reads
         /\ d.currentByte = c.currentByte /\ d.bitOffset = c.bitOffset
         /\ d.val = c.val
    ELSE d.err = "" =>
            /\ ToNat(Get(d.val, path)) = (ByteRead(c) \div Pow2(c.bitOffset)) % Pow2(n)
            /\ d.currentByte = ByteRead(c)
            /\ d.bitOffset = IF c.bitOffset + n = 8 THEN 0 ELSE c.bitOffset + n
            /\ d.reads = c.reads + (IF c.bitOffset = 0 THEN 1 ELSE 0)

\* C25: sub-byte read bound; a read of n < 8 bits when fewer than n bits remain in the
\* partially read byte fails with the insufficient-bits error, fetches no byte and
\* leaves the current byte and the bit offset as they were; a successful sub-byte
\* read returns bits bitOffset..bitOffset+n-1 of the current byte and resets the bit
\* offset to 0 exactly when the byte is fully consumed
C25_SubByteRead ==
    [][SubByteRead(t) => SubByteResult(t, t', NextPath(t), NextBits(t))]_vars

\* Decode of AB CD into bit fields of 5, 5 and 6 bits: the first took bits 0..4 of AB,
\* the second found 3 bits left and failed, the second byte was not fetched
C25_Witness ==
    /\ DecodeDone /\ sch = "Span" /\ Stream = <<171, 205>>
    /\ t.err = "Insufficient bit count for reading"
    /\ t.val = <<B(11), B(0), B(0)>>
    /\ t.reads = 1 /\ t.pos = 1 /\ t.currentByte = 171 /\ t.bitOffset = 5

\* the sink keeps the bytes align found in it, and the bytes emitted after the
\* pending byte, if there was one, are zeros
Padded(sink) ==
    /\ Len(sink) >= Len(encT.sink)
    /\ SubSeq(sink, 1, Len(encT.sink)) = encT.sink
    /\ \A k \in (Len(encT.sink) + (IF encT.bitOffset # 0 THEN 1 ELSE 0) + 1)..Len(sink) :
          sink[k] = 0

\* align has returned: an error, or the cursor flushed and padded to the boundary
AlignReturned ==
    /\ pc = "aligned"
    /\ \/ ret # <<"">>
       \/ /\ t.bitOffset = 0
          /\ t.byteOffset % arg = 0
          /\ Padded(t.sink)

\* C26: align terminates; every call of align(boundary), for every boundary >= 1,
\* every cursor and every sink, a full one that rejects bytes included, comes to
\* return, either an error or with the pending partial byte flushed (bitOffset = 0),
\* only zero bytes emitted as padding and byteOffset a multiple of boundary
C26_AlignTerminates == <>AlignReturned

\* the bits passed to encoder.write by the calls recorded in trace
RECURSIVE BitsWritten(_)
BitsWritten(trace) ==
    IF trace = <<>> THEN 0
    ELSE BitsWritten(SubSeq(trace, 1, Len(trace) - 1))
         + (IF trace[Len(trace)].h \in {"field", "layout"} THEN trace[Len(trace)].n ELSE 0)

\* C27: no bits are lost at the end of Encode; whenever Encode returns success every
\* bit passed to write has been handed to the sink, the bit offset is 0 and no
\* partially filled byte is pending, so a structure whose bit widths do not total a
\* whole number of bytes makes Encode return an error
C27_NoBitsLost ==
    EncodeOk =>
        /\ encT.bitOffset = 0
        /\ BitsWritten(encT.trace) = 8 * (Len(encT.sink) + encT.rejected)

\* the element count the non-zero governing field at g describes for the sequence at p
Described(g, p) ==
    IF parseFieldTags(FieldAt(g)).format = "countOf" THEN ToNat(Get(x, g))
    ELSE ToNat(Get(x, g)) \div ElemBytes(TypeAt(typ, p).elem)

\* the non-zero governing fields that c resolved to the sequence at p before it
\* handled the sequence
Governors(c, p) ==
    {c.refs[k].gov : k \in {j \in 1..Len(c.refs) :
        /\ c.refs[j].op = "find" /\ c.refs[j].valid /\ c.refs[j].path = p
        /\ ~IsZero(Get(x, c.refs[j].gov))
        /\ \E u \in (j + 1)..Len(c.refs) : c.refs[u].op = "use" /\ c.refs[u].path = p}}

\* the governing fields of p describe one and the same whole number of elements
Agreeing(c, p) ==
    /\ \A g \in Governors(c, p) :
          parseFieldTags(FieldAt(g)).format = "sizeOf" =>
              ToNat(Get(x, g)) % ElemBytes(TypeAt(typ, p).elem) = 0
    /\ \A g, h \in Governors(c, p) : Described(g, p) = Described(h, p)

\* C28: element count taken from a reference on Encode and Size; a sequence governed
\* by a non-zero field is written, and counted, with the number of elements that field
\* describes, c for a countOf value c and v / element-size for a sizeOf value v, so
\* that v bytes are written, whichever of a countOf and a sizeOf field naming the same
\* sequence was declared last
C28_CountFromReference ==
    /\ t.h = "encoder" =>
          \A k \in 1..Len(t.trace) :
              (t.trace[k].h = "array" /\ Agreeing(t, t.trace[k].path)) =>
                  \A g \in Governors(t, t.trace[k].path) :
                      ToNat(t.trace[k].v) = Described(g, t.trace[k].path)
    /\ (sch \in SizeOfSchemas /\ call # "Decode" /\ sizeX.err = "" /\ ~IsZero(x[1])
           /\ ToNat(x[1]) % EsBytes = 0) =>
          sizeX.n = 1 + ToNat(x[1]) + 1

\* the panic of reflect's Value.Index on an index at or beyond the length
OutOfRange == "panic: index out of range"

\* C29: no out-of-bounds element access; for every value, one whose governed sequence
\* is empty while its sizeOf / countOf field is zero and one whose non-zero governing
\* field exceeds the live length included, Encode and Size return without indexing
\* an element at or beyond the live length, and an empty sequence gives a computed
\* sizeOf / countOf value of 0
C29_NoOutOfBounds ==
    /\ sizeX.err # OutOfRange
    /\ t.h = "encoder" =>
          /\ t.err # OutOfRange
          /\ \A k \in 1..Len(t.trace) :
                (/\ t.trace[k].h = "layout"
                 /\ IsZero(Get(x, t.trace[k].path))
                 /\ Len(Get(x, Governed(t, t.trace[k].path))) = 0) => IsZero(t.trace[k].v)

\* C30: a LayoutReference applies only to its own target; the binding a governing
\* field recorded for a name is handed only to the sequence field the name resolved
\* to, and another sequence field of the same name, in a later sibling composite or a
\* later element of an array of composites, is handled with no reference unless its
\* own governing field has been visited
C30_OwnTarget ==
    t.h \in {"encoder", "decoder"} =>
        \A k \in 1..Len(t.refs) :
            (t.refs[k].op = "use" /\ t.refs[k].valid) =>
                Governed(t, t.refs[k].gov) = t.refs[k].path

====
